---- MODULE Spec2Model ----
(***************************************************************************)
(* Model of the Vault auto-unseal controller (getgrowly/vault-utils).      *)
(*                                                                         *)
(* The controller is the reconciliation loop of src/main.go together with  *)
(* the clients of src/pkg/vault/client.go and the Kubernetes client        *)
(* (GetVaultPods, CreateSecret, GetSecret, CreateUnsealKeySecret,          *)
(* CreateRootTokenSecret).  The Vault servers, the pod registry and the    *)
(* secret store are the environment: every remote call is one step whose   *)
(* outcome the environment chooses among the answers it can give in its    *)
(* current state.                                                          *)
(***************************************************************************)
EXTENDS Integers, Sequences, FiniteSets, TLC

(***************************************************************************)
(* Bounds of the model.                                                    *)
(***************************************************************************)
\* Number of Vault pods the pod registry may list.
NumPods == 2

(***************************************************************************)
(* Program constants.                                                      *)
(***************************************************************************)
defaultSecretShares == 5
defaultSecretThreshold == 3
\* Mutant: `i < 3`, the key loop stops one key short.
UnsealKeyCountShort == defaultSecretThreshold - 1

\* The loop bound of `for i := 1; i <= 3; i++` over the stored keys.
UnsealKeyCount == 3
StatusOK == 200

RootTokenSecret == "vault-root-token"
UnsealKeysSecret == "vault-unseal-keys"
SecretNames == {RootTokenSecret, UnsealKeysSecret}

Pods == 1..NumPods

\* Discovery calls without a sleep in between are counted up to this many.
MaxDiscoveries == 2

VARIABLES
    vault,          \* environment: the state of each Vault server
    secrets,        \* environment: the Kubernetes secret store
    faults,         \* environment: calls may fail for no reason of state
    fleet,          \* environment: the fixed listing of the registry, or
                    \* <<>> when its listing varies from query to query
    pc,             \* main: position in the reconciliation loop
    pods,           \* main: `pods`, the discovery result of this tick
    idx,            \* main: index of the `range pods` loop in progress
    initialized,    \* main: `initialized`
    initResp,       \* main: `initResp`
    unsealSecret,   \* main: `unsealSecret`
    keyIdx,         \* main: `i` of the key loop
    initCalls,      \* history: targets of the init calls of this tick
    initLog,        \* history: request and answer of each of these calls
    unsealCalls,    \* history: per pod, the unseal calls of this tick
    scanProbe,      \* history: per pod, its probe in the election scan
    sealProbe,      \* history: per pod, its probe in the unseal phase
    persisted,      \* history: both records were created in this tick
    prev,           \* history: the pod the previous tick initialized and
                    \* left unsealed, or 0
    probeIn,        \* prober harness: the health response handed in
    probeOut,       \* prober harness: what CheckStatus returned for it
    rangeLeft,      \* unsealVault: the map keys `range` has yet to yield
    status,         \* per-pod loop: `status`, the probe result of the pod
    keySeq,         \* unsealVault / Executor: `keys`, the shares to apply
    result,         \* Executor / handleReady: what was returned
    allReady,       \* handleReady: `allReady`
    environ,        \* environment: the environment variables of the process
    cfg,            \* main: `cfg`, the result of config.LoadConfig()
    handler,        \* handleReady running beside main: its locals
    peer,           \* the second replica: the locals and history of the replica not running
    keysDir,        \* environment: the files of the unseal-keys directory
    fileReads,      \* history: the files UnsealWithKeysFromDir has read
    storeCalls,     \* history: the secret-store writes of this tick
    discoveries     \* history: discovery calls since the last sleep

worldVars == <<faults, fleet>>
envVars == <<vault, secrets, faults, fleet>>
mainVars == <<pc, pods, idx, initialized, initResp, unsealSecret, keyIdx>>
histVars == <<initCalls, initLog, unsealCalls, scanProbe, sealProbe, persisted,
              prev>>
otherVars == <<probeIn, probeOut, rangeLeft, status>>
execVars == <<keySeq, result, allReady>>
logVars == <<storeCalls, discoveries>>
cfgVars == <<environ, cfg>>
serverVars == <<handler>>
replicaVars == <<peer>>
dirVars == <<keysDir, fileReads>>
vars == <<vault, secrets, faults, fleet, pc, pods, idx, initialized, initResp, unsealSecret,
          keyIdx, initCalls, initLog, unsealCalls, scanProbe, sealProbe,
          persisted, prev, probeIn, probeOut, rangeLeft, status, keySeq, result, allReady,
          storeCalls,
          discoveries, environ, cfg, handler, peer, keysDir, fileReads>>

(***************************************************************************)
(* Values.                                                                 *)
(***************************************************************************)
\* A key share is identified by the pod that generated it and its position.
Share(p, i) == <<p, i>>
\* The root token generated by pod p; the empty string is <<0, 0>>.
RootToken(p) == <<p, 0>>
EmptyString == <<0, 0>>

\* []byte(s) and string(b): the two conversions around the secret store.
Bytes(s) == [b |-> s]
Str(x) == x.b

\* Mutant: the key loop reads key1 at every iteration.
KeyNameAlwaysFirst(i) == "key" \o ToString(i - i + 1)

\* Mutant: the key loop names its keys from key0.
KeyNameZeroBased(i) == "key" \o ToString(i - 1)

\* fmt.Sprintf("key%d", i) of the key loop of main.
KeyName(i) == "key" \o ToString(i)

EmptyData == [n \in {} |-> Bytes(EmptyString)]
NoSecret == [exists |-> FALSE, data |-> EmptyData]

\* The zero Status / the nil *Status returned with an error.
\* Nothing returned yet.
NoResult == "none"

NoStatus == [Initialized |-> FALSE, Sealed |-> FALSE]
ProbeErr == [err |-> TRUE, status |-> NoStatus]
NoInitResp == [err |-> TRUE, Keys |-> <<>>, RootToken |-> EmptyString]

(***************************************************************************)
(* Configuration: src/pkg/config/config.go.  A string of the environment   *)
(* is the sequence of its characters.  time.Duration is a signed integer   *)
(* of DurationBits bits that counts fractions of a second, Second to the   *)
(* second; the arithmetic on it wraps as the two's complement arithmetic   *)
(* of Go does.                                                             *)
(***************************************************************************)
DurationBits == 16
Second == 1000
MaxValueLen == 2

EnvKeys == {"VAULT_NAMESPACE", "VAULT_PORT", "CHECK_INTERVAL"}
Unset == [set |-> FALSE, text |-> <<>>]
SetTo(text) == [set |-> TRUE, text |-> text]
NoEnviron == [k \in EnvKeys |-> Unset]

\* "vault", "8200" and the values the environment may give instead.
DefaultNamespace == <<"v", "a", "u", "l", "t">>
DefaultPort == <<"8", "2", "0", "0">>
CustomNamespace == <<"c", "u", "s", "t", "o", "m">>
CustomPort == <<"8", "2", "0", "1">>

\* The characters of a CHECK_INTERVAL value, and the digits among them.
Digits == {"0", "2", "5"}
IntervalChars == Digits \cup {"-", "x"}
IntervalTexts == UNION {[1..n -> IntervalChars] : n \in 0..MaxValueLen}

\* os.Getenv: the value, or "" when the variable is not set.
Getenv(e, key) == IF e[key].set THEN e[key].text ELSE <<>>

DigitValue(c) == CASE c = "0" -> 0 [] c = "2" -> 2 [] c = "5" -> 5

RECURSIVE Decimal(_)
Decimal(text) ==
    IF text = <<>> THEN 0
    ELSE 10 * Decimal(SubSeq(text, 1, Len(text) - 1))
            + DigitValue(text[Len(text)])

\* strconv.Atoi: an optional sign and at least one digit, nothing else.
Atoi(text) ==
    LET signed == text # <<>> /\ Head(text) = "-"
        body == IF signed THEN Tail(text) ELSE text
    IN  IF body = <<>> \/ \E i \in DOMAIN body : body[i] \notin Digits
        THEN [err |-> TRUE, value |-> 0]
        ELSE [err |-> FALSE,
              value |-> IF signed THEN 0 - Decimal(body) ELSE Decimal(body)]

\* The value an integer has in a time.Duration.
Wrap(x) ==
    ((x + 2 ^ (DurationBits - 1)) % (2 ^ DurationBits))
        - 2 ^ (DurationBits - 1)

getEnvOrDefault(e, key, defaultValue) ==
    IF Getenv(e, key) # <<>> THEN Getenv(e, key) ELSE defaultValue

getEnvAsIntOrDefault(e, key, defaultValue) ==
    IF Getenv(e, key) # <<>> /\ ~Atoi(Getenv(e, key)).err
    THEN Atoi(Getenv(e, key)).value
    ELSE defaultValue

LoadConfig(e) ==
    [VaultNamespace |-> getEnvOrDefault(e, "VAULT_NAMESPACE", DefaultNamespace),
     VaultPort |-> getEnvOrDefault(e, "VAULT_PORT", DefaultPort),
     CheckInterval |->
         Wrap(getEnvAsIntOrDefault(e, "CHECK_INTERVAL", 10) * Second)]

(***************************************************************************)
(* Environment: a Vault server.                                            *)
(***************************************************************************)
FreshVault == [inited |-> FALSE, sealed |-> TRUE, threshold |-> 0, progress |-> {}]

\* The status body a server in state v reports.
StatusBody(v) == [ok |-> TRUE, initialized |-> v.inited, sealed |-> v.sealed]
BadBody == [ok |-> FALSE, initialized |-> FALSE, sealed |-> FALSE]

\* Status codes a health or seal-status query may be answered with.
HealthCodes == {200, 429, 472, 473, 501, 503, 404, 500}

TransportError == [transport |-> TRUE, code |-> 0, body |-> BadBody]

\* The answers to a health query of a server in state v; without faults the
\* server answers 200 with its status.
HealthResponses(v) ==
    {r \in {TransportError} \cup
            {[transport |-> FALSE, code |-> c, body |-> b] :
                c \in HealthCodes, b \in {StatusBody(v), BadBody}} :
        faults \/ (~r.transport /\ r.code = 200 /\ r.body.ok)}

(***************************************************************************)
(* The Vault client: src/pkg/vault/client.go.                              *)
(***************************************************************************)
\* CheckStatus: the status decoded from a response, or an error.
CheckStatus(resp) ==
    IF resp.transport THEN ProbeErr
    ELSE IF resp.code # StatusOK THEN ProbeErr
    ELSE IF ~resp.body.ok THEN ProbeErr
    ELSE [err |-> FALSE,
          status |-> [Initialized |-> resp.body.initialized,
                      Sealed |-> resp.body.sealed]]

\* Mutant: the two numbers of the request are exchanged.
InitRequestSwapped ==
    [secret_shares |-> defaultSecretThreshold,
     secret_threshold |-> defaultSecretShares]

\* The request Initialize sends.
InitRequest ==
    [secret_shares |-> defaultSecretShares,
     secret_threshold |-> defaultSecretThreshold]

\* Mutant: the body of a 200 answer is taken as it is, decodable or not.
InitializeAnyBody(resp) ==
    IF resp.transport THEN NoInitResp
    ELSE IF resp.code # StatusOK THEN NoInitResp
    ELSE [err |-> FALSE, Keys |-> resp.body.keys,
          RootToken |-> resp.body.root_token]

\* Initialize: the decoded InitResponse, or an error.
Initialize(resp) ==
    IF resp.transport THEN NoInitResp
    ELSE IF resp.code # StatusOK THEN NoInitResp
    ELSE IF ~resp.body.ok THEN NoInitResp
    ELSE [err |-> FALSE, Keys |-> resp.body.keys,
          RootToken |-> resp.body.root_token]

\* Mutant: an answer that reports the Vault unsealed is an error.
UnsealWithKeyUnsealedIsError(resp) ==
    IF resp.transport THEN TRUE
    ELSE IF resp.code # StatusOK THEN TRUE
    ELSE IF ~resp.body.ok THEN TRUE
    ELSE ~resp.body.sealed

\* Mutant: an answer that reports the Vault still sealed is an error.
UnsealWithKeySealedIsError(resp) ==
    IF resp.transport THEN TRUE
    ELSE IF resp.code # StatusOK THEN TRUE
    ELSE IF ~resp.body.ok THEN TRUE
    ELSE resp.body.sealed

\* UnsealWithKey: TRUE when it returns an error.
UnsealWithKey(resp) ==
    IF resp.transport THEN TRUE
    ELSE IF resp.code # StatusOK THEN TRUE
    ELSE IF ~resp.body.ok THEN TRUE
    ELSE FALSE

(***************************************************************************)
(* Environment: the answers of a Vault server to init and unseal.          *)
(***************************************************************************)
BadInitBody == [ok |-> FALSE, keys |-> <<>>, root_token |-> EmptyString]
\* A body that decodes but carries neither keys nor a token.
ShortInitBody == [ok |-> TRUE, keys |-> <<>>, root_token |-> EmptyString]
FullInitBody(p, req) ==
    [ok |-> TRUE,
     keys |-> [i \in 1..req.secret_shares |-> Share(p, i)],
     root_token |-> RootToken(p)]

InitFailure(code) == [transport |-> FALSE, code |-> code, body |-> BadInitBody]
InitTransportError == [transport |-> TRUE, code |-> 0, body |-> BadInitBody]

\* PUT /v1/sys/init on pod p in state v: the possible (response, new state).
\* Without faults an uninitialized server initializes and returns its shares,
\* and an initialized one refuses with 400.
EnvInit(p, v, req) ==
    (IF faults
     THEN {[resp |-> InitTransportError, after |-> v],
           [resp |-> InitFailure(500), after |-> v]}
     ELSE {}) \cup
    (IF v.inited
     THEN {[resp |-> InitFailure(400), after |-> v]}
     ELSE {[resp |-> [transport |-> FALSE, code |-> 200, body |-> b],
            after |-> [inited |-> TRUE, sealed |-> TRUE,
                       threshold |-> req.secret_threshold, progress |-> {}]] :
              b \in {FullInitBody(p, req)} \cup
                    (IF faults THEN {ShortInitBody, BadInitBody} ELSE {})})

BadUnsealBody == [ok |-> FALSE, sealed |-> FALSE]
UnsealFailure(code) == [transport |-> FALSE, code |-> code, body |-> BadUnsealBody]
UnsealTransportError == [transport |-> TRUE, code |-> 0, body |-> BadUnsealBody]

IsShareOf(p, key) == key[1] = p /\ key[2] \in 1..defaultSecretShares

\* The state of pod p after it accepted the valid share `key`.
ApplyShare(p, v, key) ==
    IF ~v.sealed THEN v
    ELSE LET got == v.progress \cup {key[2]} IN
         IF Cardinality(got) >= v.threshold
         THEN [v EXCEPT !.sealed = FALSE, !.progress = {}]
         ELSE [v EXCEPT !.progress = got]

\* POST /v1/sys/unseal with `key` on pod p in state v.
\* An uninitialized server, and a sealed one given a key that is not one of
\* its shares, refuse with 400.
EnvUnseal(p, v, key) ==
    (IF faults
     THEN {[resp |-> UnsealTransportError, after |-> v],
           [resp |-> UnsealFailure(500), after |-> v]}
     ELSE {}) \cup
    (IF ~v.inited \/ (v.sealed /\ ~IsShareOf(p, key))
     THEN {[resp |-> UnsealFailure(400), after |-> v]}
     ELSE LET w == ApplyShare(p, v, key) IN
          {[resp |-> [transport |-> FALSE, code |-> 200, body |-> b],
            after |-> w] :
              b \in {[ok |-> TRUE, sealed |-> w.sealed]} \cup
                    (IF faults THEN {BadUnsealBody} ELSE {})})

(***************************************************************************)
(* Environment: the pod registry and the secret store.                     *)
(***************************************************************************)
\* The lists of distinct pods.
PodLists ==
    {l \in UNION {[1..n -> Pods] : n \in 0..NumPods} :
        \A a, b \in DOMAIN l : a # b => l[a] # l[b]}

\* What the registry may list at a query.
Registry == IF fleet = <<>> THEN PodLists ELSE {fleet}

\* create-record: fails on a duplicate, or with an API error.
EnvCreate(s, name, data) ==
    (IF faults \/ s[name].exists THEN {[err |-> TRUE, after |-> s]} ELSE {}) \cup
    (IF s[name].exists THEN {}
     ELSE {[err |-> FALSE,
            after |-> [s EXCEPT ![name] = [exists |-> TRUE, data |-> data]]]})

\* get-record: fails when the record is missing, or with an API error.
EnvGet(s, name) ==
    (IF faults \/ ~s[name].exists
     THEN {[err |-> TRUE, secret |-> NoSecret]} ELSE {}) \cup
    (IF s[name].exists THEN {[err |-> FALSE, secret |-> s[name]]} ELSE {})

\* update-record: fails when the record is missing, or with an API error.
EnvUpdate(s, name, data) ==
    (IF faults \/ ~s[name].exists THEN {[err |-> TRUE, after |-> s]} ELSE {}) \cup
    (IF s[name].exists
     THEN {[err |-> FALSE,
            after |-> [s EXCEPT ![name] = [exists |-> TRUE, data |-> data]]]}
     ELSE {})

(***************************************************************************)
(* The Kubernetes client.                                                  *)
(***************************************************************************)
\* GetVaultPods: the addresses listed, or an error.
GetVaultPods ==
    (IF faults THEN {[err |-> TRUE, pods |-> <<>>]} ELSE {}) \cup
    {[err |-> FALSE, pods |-> l] : l \in Registry}

\* fmt.Sprintf("key%d", i+1) for the key at index i of a Go slice, which is
\* the element at position j = i + 1 of the sequence.
SecretKeyName(j) == "key" \o ToString((j - 1) + 1)

\* Mutant: the keys are stored as key0, key1, ...
UnsealKeysDataZeroBased(keys) ==
    [n \in {"key" \o ToString(j - 1) : j \in DOMAIN keys} |->
        Bytes(keys[CHOOSE j \in DOMAIN keys : "key" \o ToString(j - 1) = n])]

\* The Data of the unseal-keys secret: key<i+1> for the key at index i.
UnsealKeysData(keys) ==
    [n \in {SecretKeyName(j) : j \in DOMAIN keys} |->
        Bytes(keys[CHOOSE j \in DOMAIN keys : SecretKeyName(j) = n])]

RootTokenData(rootToken) == [n \in {"token"} |-> Bytes(rootToken)]

CreateSecret(s, name, data) == EnvCreate(s, name, data)
\* Mutant: reading a secret deletes it.
GetSecretAndDelete(s, name) ==
    {[err |-> o.err, secret |-> o.secret,
      after |-> [s EXCEPT ![name] = NoSecret]] : o \in EnvGet(s, name)}

\* GetSecret: one Get call on the store, which is left as it was.
GetSecret(s, name) ==
    {[err |-> o.err, secret |-> o.secret, after |-> s] : o \in EnvGet(s, name)}
UpdateSecret(s, name, data) == EnvUpdate(s, name, data)
CreateUnsealKeySecret(s, keys) ==
    CreateSecret(s, UnsealKeysSecret, UnsealKeysData(keys))
CreateRootTokenSecret(s, rootToken) ==
    CreateSecret(s, RootTokenSecret, RootTokenData(rootToken))

(***************************************************************************)
(* History of the current tick.                                            *)
(***************************************************************************)
\* One unseal call: the position and the value of the share sent, whether
\* UnsealWithKey returned an error, whether the server accepted the share
\* (answered 200), whether its answer could be decoded, and the `sealed` of
\* the answer.
UnsealCall(pos, key, resp) ==
    [pos |-> pos, key |-> key, err |-> UnsealWithKey(resp),
     applied |-> ~resp.transport /\ resp.code = 200,
     decoded |-> resp.body.ok,
     sealed |-> resp.body.sealed]

\* A file of the unseal-keys directory: unreadable, or holding a key string.
Unreadable == [readable |-> FALSE, content |-> EmptyString]
File(content) == [readable |-> TRUE, content |-> content]

\* The file names key1, key2, key3, and a directory with none of them.
DirFileNames == {KeyName(i) : i \in 1..3}
NoKeysDir == [n \in DirFileNames |-> Unreadable]

\* The locals of handleReady when no request was served yet.
NoRequest ==
    [pc |-> "idle", method |-> "", listing |-> <<>>, listErr |-> FALSE,
     pods |-> <<>>, idx |-> 0, allReady |-> TRUE, probes |-> <<>>,
     code |-> 0]

\* One init call: the request sent and the answer received.
InitCall(req, resp) == [req |-> req, resp |-> resp]

NotProbed == [probed |-> FALSE, err |-> FALSE, status |-> NoStatus]
Probed(r) == [probed |-> TRUE, err |-> r.err, status |-> r.status]

\* The pod this tick initialized and left unsealed, or 0.
InitializedAndUnsealed ==
    IF initCalls # <<>> /\ ~initResp.err /\ ~vault[initCalls[1]].sealed
    THEN initCalls[1] ELSE 0

\* One write to the secret store, and whether the record existed before it.
StoreCall(op, name, s, err) ==
    [op |-> op, name |-> name, existed |-> s[name].exists, err |-> err]

NoHistory ==
    /\ storeCalls' = <<>>
    /\ discoveries' = IF discoveries < MaxDiscoveries
                      THEN discoveries + 1 ELSE discoveries
    /\ prev' = InitializedAndUnsealed
    /\ initCalls' = <<>>
    /\ initLog' = <<>>
    /\ unsealCalls' = [p \in Pods |-> <<>>]
    /\ scanProbe' = [p \in Pods |-> NotProbed]
    /\ sealProbe' = [p \in Pods |-> NotProbed]
    /\ persisted' = FALSE

(***************************************************************************)
(* The reconciliation loop: main of src/main.go.                           *)
(***************************************************************************)
\* The locals of main and the histories before the first tick.
NoTick ==
    /\ pods = <<>>
    /\ idx = 0
    /\ initialized = FALSE
    /\ initResp = NoInitResp
    /\ unsealSecret = NoSecret
    /\ keyIdx = 0
    /\ initCalls = <<>>
    /\ initLog = <<>>
    /\ unsealCalls = [p \in Pods |-> <<>>]
    /\ scanProbe = [p \in Pods |-> NotProbed]
    /\ sealProbe = [p \in Pods |-> NotProbed]
    /\ persisted = FALSE
    /\ prev = 0

\* The locals and the history of a replica that has just started.
FreshReplica ==
    [pc |-> "discover", pods |-> <<>>, idx |-> 0, initialized |-> FALSE,
     initResp |-> NoInitResp, unsealSecret |-> NoSecret, keyIdx |-> 0,
     initCalls |-> <<>>, initLog |-> <<>>,
     unsealCalls |-> [p \in Pods |-> <<>>],
     scanProbe |-> [p \in Pods |-> NotProbed],
     sealProbe |-> [p \in Pods |-> NotProbed],
     persisted |-> FALSE, prev |-> 0, storeCalls |-> <<>>, discoveries |-> 0,
     status |-> NoStatus, keySeq |-> <<>>, result |-> NoResult]

\* Uninitialized servers, an empty store, and main entering its loop.
Start ==
    /\ vault = [p \in Pods |-> FreshVault]
    /\ secrets = [n \in SecretNames |-> NoSecret]
    /\ pc = "discover"
    /\ NoTick
    /\ probeIn = TransportError
    /\ probeOut = ProbeErr
    /\ rangeLeft = {}
    /\ status = NoStatus
    /\ keySeq = <<>>
    /\ result = NoResult
    /\ allReady = TRUE
    /\ storeCalls = <<>>
    /\ discoveries = 0
    /\ handler = NoRequest
    /\ peer = FreshReplica
    /\ keysDir = NoKeysDir
    /\ fileReads = <<>>
    /\ environ = NoEnviron
    /\ cfg = LoadConfig(environ)

\* Any listing, and calls that may fail.
Init ==
    /\ faults = TRUE
    /\ fleet = <<>>
    /\ Start

\* time.Sleep(cfg.CheckInterval), then the next iteration of `for`.
Sleep ==
    /\ pc = "sleep"
    /\ pc' = "discover"
    /\ discoveries' = 0
    /\ UNCHANGED <<replicaVars, dirVars, serverVars, cfgVars,
                   envVars, pods, idx, initialized, initResp, unsealSecret,
                   keyIdx, histVars, otherVars, storeCalls, execVars>>

\* pods, err := k8sClient.GetVaultPods(...); the tick's locals are declared.
Discover ==
    /\ pc = "discover"
    /\ \E r \in GetVaultPods :
        /\ pods' = r.pods
        /\ IF r.err \/ Len(r.pods) = 0
           THEN pc' = "sleep" /\ idx' = 0
           ELSE pc' = "scan" /\ idx' = 1
    /\ initialized' = FALSE
    /\ initResp' = NoInitResp
    /\ unsealSecret' = NoSecret
    /\ keyIdx' = 0
    /\ NoHistory
    /\ UNCHANGED <<replicaVars, dirVars, serverVars, cfgVars,
                   envVars, otherVars, execVars>>

\* Mutant: the loop initializes whatever the scan found.
ShouldInitializeAlways(init) == TRUE

\* `if !initialized { ... }`: the loop initializes a Vault.
ShouldInitialize(init) == ~init

\* One iteration of the first `range pods` loop: is any Vault initialized?
ScanStatus ==
    /\ pc = "scan"
    /\ LET p == pods[idx] IN
       \E r \in {CheckStatus(h) : h \in HealthResponses(vault[p])} :
        /\ scanProbe' = [scanProbe EXCEPT ![p] = Probed(r)]
        /\ IF ~r.err /\ r.status.Initialized
           THEN initialized' = TRUE /\ idx' = 0
           ELSE /\ initialized' = initialized
                /\ idx' = IF idx < Len(pods) THEN idx + 1 ELSE 0
        /\ pc' = IF idx' # 0 THEN "scan"
                 ELSE IF ShouldInitialize(initialized') THEN "init"
                 ELSE "getSecret"
    /\ UNCHANGED <<replicaVars, dirVars, serverVars, cfgVars,
                   envVars, pods, initResp, unsealSecret, keyIdx, initCalls, initLog,
                   unsealCalls, sealProbe, persisted, prev, otherVars,
                   logVars, execVars>>

IsInit(pr) == pr.probed /\ ~pr.err /\ pr.status.Initialized
IsUninit(pr) == pr.probed /\ ~pr.err /\ ~pr.status.Initialized

\* Mutant: the first pod the scan found uninitialized is initialized.
InitTargetFirstUninitialized ==
    IF \E i \in DOMAIN pods : IsUninit(scanProbe[pods[i]])
    THEN pods[CHOOSE i \in DOMAIN pods :
                /\ IsUninit(scanProbe[pods[i]])
                /\ \A j \in 1..(i - 1) : ~IsUninit(scanProbe[pods[j]])]
    ELSE pods[1]

\* The pod the loop initializes when no Vault was found initialized: pods[0].
InitTarget == pods[1]

\* Mutant: a failed initialization is tried again at once.
AfterInitErrorRetry == "init"

\* `if initErr != nil { ...; time.Sleep(cfg.CheckInterval); continue }`
AfterInitError == "sleep"

\* initResp, initErr = vaultClient.Initialize() on the first pod.
InitializeFirst ==
    /\ pc = "init"
    /\ LET p == InitTarget IN
       \E o \in EnvInit(p, vault[p], InitRequest) :
        /\ vault' = [vault EXCEPT ![p] = o.after]
        /\ initCalls' = Append(initCalls, p)
        /\ initLog' = Append(initLog, InitCall(InitRequest, o.resp))
        /\ initResp' = Initialize(o.resp)
        /\ pc' = IF initResp'.err THEN AfterInitError ELSE "storeKeys"
    /\ UNCHANGED <<replicaVars, dirVars, serverVars, cfgVars,
                   worldVars, secrets, pods, idx, initialized, unsealSecret, keyIdx,
                   unsealCalls, scanProbe, sealProbe, persisted, prev,
                   otherVars,
                   logVars, execVars>>

\* Mutant: the root token is stored although storing the keys failed.
AfterKeyStoreErrorGoOn == "storeToken"

\* A CreateUnsealKeySecret error: log, sleep, continue.
AfterKeyStoreError == "sleep"

\* k8sClient.CreateUnsealKeySecret(cfg.VaultNamespace, initResp.Keys)
StoreUnsealKeys ==
    /\ pc = "storeKeys"
    /\ \E o \in CreateUnsealKeySecret(secrets, initResp.Keys) :
        /\ secrets' = o.after
        /\ storeCalls' = Append(storeCalls,
               StoreCall("create", UnsealKeysSecret, secrets, o.err))
        /\ pc' = IF o.err THEN AfterKeyStoreError ELSE "storeToken"
    /\ UNCHANGED <<replicaVars, dirVars, serverVars, cfgVars,
                   worldVars, vault, pods, idx, initialized, initResp, unsealSecret,
                   keyIdx, histVars, otherVars, discoveries, execVars>>

\* k8sClient.CreateRootTokenSecret(cfg.VaultNamespace, initResp.RootToken)
StoreRootToken ==
    /\ pc = "storeToken"
    /\ \E o \in CreateRootTokenSecret(secrets, initResp.RootToken) :
        /\ secrets' = o.after
        /\ storeCalls' = Append(storeCalls,
               StoreCall("create", RootTokenSecret, secrets, o.err))
        /\ pc' = IF o.err THEN "sleep" ELSE "getSecret"
        /\ persisted' = ~o.err
    /\ UNCHANGED <<replicaVars, dirVars, serverVars, cfgVars,
                   worldVars, vault, pods, idx, initialized, initResp, unsealSecret,
                   keyIdx, initCalls, initLog, unsealCalls, scanProbe, sealProbe,
                   prev, otherVars, discoveries, execVars>>

\* unsealSecret, err := k8sClient.GetSecret(..., vault.UnsealKeysSecret)
FetchUnsealKeys ==
    /\ pc = "getSecret"
    /\ \E o \in GetSecret(secrets, UnsealKeysSecret) :
        /\ unsealSecret' = o.secret
        /\ secrets' = o.after
        /\ IF o.err
           THEN pc' = "sleep" /\ idx' = 0
           ELSE pc' = "unseal" /\ idx' = 1
    /\ UNCHANGED <<replicaVars, dirVars, serverVars, cfgVars,
                   worldVars, vault, pods, initialized, initResp, keyIdx, histVars,
                   otherVars,
                   logVars, execVars>>

\* The second `range pods` loop moves on to its next pod, or ends the tick.
NextPod ==
    /\ keyIdx' = 0
    /\ IF idx < Len(pods)
       THEN idx' = idx + 1 /\ pc' = "unseal"
       ELSE idx' = 0 /\ pc' = "sleep"

\* The key loop moves on to its next key, or is done with the pod.
NextKey ==
    IF keyIdx < UnsealKeyCount
    THEN keyIdx' = keyIdx + 1 /\ idx' = idx /\ pc' = "apply"
    ELSE NextPod

\* Mutant: a failed probe ends the second loop.
SkipPodAndRest ==
    /\ keyIdx' = 0
    /\ idx' = 0
    /\ pc' = "sleep"

\* `if err != nil { log.Printf(...); continue }` of the second loop.
SkipPod == NextPod

\* Mutant: an initialized pod is sent the keys whether it is sealed or not.
NeedsUnsealOrInitialized(st) == st.Sealed \/ st.Initialized

\* `if status.Sealed` of the second loop.
NeedsUnseal(st) == st.Sealed

\* Mutant: the key loop resumes after the shares the pod already holds.
FirstKeyResumed == Cardinality(vault[pods[idx]].progress) + 1

\* `for i := 1; ...` of the key loop.
FirstKey == 1

\* status, err := vaultClient.CheckStatus() in the second loop.
SealStatus ==
    /\ pc = "unseal"
    /\ LET p == pods[idx] IN
       \E r \in {CheckStatus(h) : h \in HealthResponses(vault[p])} :
        /\ sealProbe' = [sealProbe EXCEPT ![p] = Probed(r)]
        /\ IF r.err
           THEN SkipPod
           ELSE IF NeedsUnseal(r.status)
           THEN keyIdx' = FirstKey /\ idx' = idx /\ pc' = "apply"
           ELSE NextPod
    /\ UNCHANGED <<replicaVars, dirVars, serverVars, cfgVars,
                   envVars, pods, initialized, initResp, unsealSecret,
                   initCalls, initLog, unsealCalls, scanProbe, persisted, prev,
                   otherVars,
                   logVars, execVars>>

\* key, ok := unsealSecret.Data["key<i>"]; !ok: log and continue.
SkipKey ==
    /\ pc = "apply"
    /\ KeyName(keyIdx) \notin DOMAIN unsealSecret.data
    /\ NextKey
    /\ UNCHANGED <<replicaVars, dirVars, serverVars, cfgVars,
                   envVars, pods, initialized, initResp, unsealSecret,
                   histVars, otherVars,
                   logVars, execVars>>

\* vaultClient.UnsealWithKey(string(key)); an error breaks the key loop.
ApplyKey ==
    /\ pc = "apply"
    /\ KeyName(keyIdx) \in DOMAIN unsealSecret.data
    /\ LET p == pods[idx]
           key == Str(unsealSecret.data[KeyName(keyIdx)]) IN
       \E o \in EnvUnseal(p, vault[p], key) :
        LET failed == UnsealWithKey(o.resp) IN
        /\ vault' = [vault EXCEPT ![p] = o.after]
        /\ unsealCalls' = [unsealCalls EXCEPT ![p] =
               Append(@, UnsealCall(keyIdx, key, o.resp))]
        /\ IF failed THEN NextPod ELSE NextKey
    /\ UNCHANGED <<replicaVars, dirVars, serverVars, cfgVars,
                   worldVars, secrets, pods, initialized, initResp, unsealSecret,
                   initCalls, initLog, scanProbe, sealProbe, persisted, prev,
                   otherVars,
                   logVars, execVars>>

Next ==
    \/ Sleep
    \/ Discover
    \/ ScanStatus
    \/ InitializeFirst
    \/ StoreUnsealKeys
    \/ StoreRootToken
    \/ FetchUnsealKeys
    \/ SealStatus
    \/ SkipKey
    \/ ApplyKey

Spec == Init /\ [][Next]_vars

(***************************************************************************)
(* The loop over a fixed non-empty listing, with calls that fail only when *)
(* the state of the server or of the store makes them fail.  The loop is   *)
(* sequential and every call returns, so its next step is always taken.    *)
(***************************************************************************)
LiveInit ==
    /\ faults = FALSE
    /\ fleet \in {l \in PodLists : l # <<>>}
    /\ Start

LiveNext ==
    \/ Sleep
    \/ Discover
    \/ ScanStatus
    \/ InitializeFirst
    \/ StoreUnsealKeys
    \/ StoreRootToken
    \/ FetchUnsealKeys
    \/ SealStatus
    \/ ApplyKey

LiveSpec == LiveInit /\ [][LiveNext]_vars /\ WF_vars(LiveNext)

(***************************************************************************)
(* The Status Prober on its own: CheckStatus applied to every response a   *)
(* server can give.                                                        *)
(***************************************************************************)
\* CheckStatus of the client that queries /v1/sys/health.
validCodes == {200, 429, 501, 503, 472, 473}
CheckStatusHealth(resp) ==
    IF resp.transport THEN ProbeErr
    ELSE IF resp.code \notin validCodes THEN ProbeErr
    ELSE IF ~resp.body.ok THEN ProbeErr
    ELSE [err |-> FALSE,
          status |-> [Initialized |-> resp.body.initialized,
                      Sealed |-> resp.body.sealed]]

\* The states a server can report.
ReportedStates ==
    [inited : BOOLEAN, sealed : BOOLEAN, threshold : {0}, progress : {{}}]

ProbeInit ==
    /\ faults = TRUE
    /\ fleet = <<>>
    /\ vault = [p \in Pods |-> FreshVault]
    /\ secrets = [n \in SecretNames |-> NoSecret]
    /\ pc = "probe"
    /\ NoTick
    /\ probeIn \in UNION {HealthResponses(v) : v \in ReportedStates}
    /\ probeOut = ProbeErr
    /\ rangeLeft = {}
    /\ status = NoStatus
    /\ keySeq = <<>>
    /\ result = NoResult
    /\ allReady = TRUE
    /\ storeCalls = <<>>
    /\ discoveries = 0
    /\ handler = NoRequest
    /\ peer = FreshReplica
    /\ keysDir = NoKeysDir
    /\ fileReads = <<>>
    /\ environ = NoEnviron
    /\ cfg = LoadConfig(environ)

\* status, err := vaultClient.CheckStatus() with the client of
\* src/pkg/vault/client.go.
ProbeSealStatus ==
    /\ pc = "probe"
    /\ probeOut' = CheckStatus(probeIn)
    /\ pc' = "probed"
    /\ UNCHANGED <<replicaVars, dirVars, serverVars, cfgVars,
                   envVars, pods, idx, initialized, initResp, unsealSecret,
                   keyIdx, histVars, probeIn, rangeLeft, status,
                   logVars, execVars>>

\* The same call with the client that queries the health endpoint.
ProbeHealth ==
    /\ pc = "probe"
    /\ probeOut' = CheckStatusHealth(probeIn)
    /\ pc' = "probedHealth"
    /\ UNCHANGED <<replicaVars, dirVars, serverVars, cfgVars,
                   envVars, pods, idx, initialized, initResp, unsealSecret,
                   keyIdx, histVars, probeIn, rangeLeft, status,
                   logVars, execVars>>

ProbeNext ==
    \/ ProbeSealStatus
    \/ ProbeHealth

ProbeSpec == ProbeInit /\ [][ProbeNext]_vars

(***************************************************************************)
(* The per-pod loop: main, initializeVault and unsealVault of the          *)
(* controller source embedded in src/Dockerfile, which probes each pod in  *)
(* turn and initializes or unseals it on the spot.                         *)
(***************************************************************************)
PerPodInit ==
    /\ faults = TRUE
    /\ fleet = <<>>
    /\ vault = [p \in Pods |-> FreshVault]
    /\ secrets = [n \in SecretNames |-> NoSecret]
    /\ pc = "pp:discover"
    /\ NoTick
    /\ probeIn = TransportError
    /\ probeOut = ProbeErr
    /\ rangeLeft = {}
    /\ status = NoStatus
    /\ keySeq = <<>>
    /\ result = NoResult
    /\ allReady = TRUE
    /\ storeCalls = <<>>
    /\ discoveries = 0
    /\ handler = NoRequest
    /\ peer = FreshReplica
    /\ keysDir = NoKeysDir
    /\ fileReads = <<>>
    /\ environ = NoEnviron
    /\ cfg = LoadConfig(environ)

\* `continue` of the `range pods` loop, or its end and the sleep.
PerPodContinue ==
    /\ rangeLeft' = {}
    /\ IF idx < Len(pods)
       THEN idx' = idx + 1 /\ pc' = "pp:status"
       ELSE idx' = 0 /\ pc' = "pp:sleep"

\* time.Sleep(cfg.CheckInterval)
PerPodSleep ==
    /\ pc = "pp:sleep"
    /\ pc' = "pp:discover"
    /\ discoveries' = 0
    /\ UNCHANGED <<replicaVars, dirVars, serverVars, cfgVars,
                   envVars, pods, idx, initialized, initResp, unsealSecret,
                   keyIdx, histVars, otherVars, storeCalls, execVars>>

\* pods, err := k8sClient.GetVaultPods(...); on an error or an empty list
\* the loop continues without sleeping.
PerPodDiscover ==
    /\ pc = "pp:discover"
    /\ \E r \in GetVaultPods :
        /\ pods' = r.pods
        /\ IF r.err \/ Len(r.pods) = 0
           THEN pc' = "pp:discover" /\ idx' = 0
           ELSE pc' = "pp:status" /\ idx' = 1
    /\ initResp' = NoInitResp
    /\ unsealSecret' = NoSecret
    /\ status' = NoStatus
    /\ rangeLeft' = {}
    /\ NoHistory
    /\ UNCHANGED <<replicaVars, dirVars, serverVars, cfgVars,
                   envVars, initialized, keyIdx, probeIn, probeOut, execVars>>

\* status, err := vaultClient.CheckStatus(), and the branch on the status.
PerPodCheckStatus ==
    /\ pc = "pp:status"
    /\ LET p == pods[idx] IN
       \E r \in {CheckStatus(h) : h \in HealthResponses(vault[p])} :
        /\ sealProbe' = [sealProbe EXCEPT ![p] = Probed(r)]
        /\ status' = r.status
        /\ IF r.err THEN PerPodContinue
           ELSE IF ~r.status.Initialized
           THEN pc' = "pp:init" /\ idx' = idx /\ rangeLeft' = {}
           ELSE IF r.status.Sealed
           THEN pc' = "pp:getSecret" /\ idx' = idx /\ rangeLeft' = {}
           ELSE PerPodContinue
    /\ UNCHANGED <<replicaVars, dirVars, serverVars, cfgVars,
                   envVars, pods, initialized, initResp, unsealSecret, keyIdx,
                   initCalls, initLog, unsealCalls, scanProbe, persisted, prev,
                   probeIn, probeOut,
                   logVars, execVars>>

\* initializeVault: resp, err := vaultClient.Initialize()
InitializeVault ==
    /\ pc = "pp:init"
    /\ LET p == pods[idx] IN
       \E o \in EnvInit(p, vault[p], InitRequest) :
        /\ vault' = [vault EXCEPT ![p] = o.after]
        /\ initCalls' = Append(initCalls, p)
        /\ initLog' = Append(initLog, InitCall(InitRequest, o.resp))
        /\ initResp' = Initialize(o.resp)
        /\ IF initResp'.err THEN PerPodContinue
           ELSE pc' = "pp:storeToken" /\ idx' = idx /\ rangeLeft' = {}
    /\ UNCHANGED <<replicaVars, dirVars, serverVars, cfgVars,
                   worldVars, secrets, pods, initialized, unsealSecret, keyIdx,
                   unsealCalls, scanProbe, sealProbe, persisted, prev,
                   probeIn, probeOut, status,
                   logVars, execVars>>

\* initializeVault: kubeClient.CreateSecret(rootTokenSecret)
InitializeVaultStoreToken ==
    /\ pc = "pp:storeToken"
    /\ \E o \in CreateSecret(secrets, RootTokenSecret,
                              RootTokenData(initResp.RootToken)) :
        /\ secrets' = o.after
        /\ storeCalls' = Append(storeCalls,
               StoreCall("create", RootTokenSecret, secrets, o.err))
        /\ IF o.err THEN PerPodContinue
           ELSE pc' = "pp:storeKeys" /\ idx' = idx /\ rangeLeft' = {}
    /\ UNCHANGED <<replicaVars, dirVars, serverVars, cfgVars,
                   worldVars, vault, pods, initialized, initResp, unsealSecret,
                   keyIdx, histVars, probeIn, probeOut, status, discoveries,
                   execVars>>

\* initializeVault: kubeClient.CreateSecret(unsealKeysSecret); back in main,
\* `if status.Sealed` tests the status probed before the initialization.
InitializeVaultStoreKeys ==
    /\ pc = "pp:storeKeys"
    /\ \E o \in CreateSecret(secrets, UnsealKeysSecret,
                              UnsealKeysData(initResp.Keys)) :
        /\ secrets' = o.after
        /\ storeCalls' = Append(storeCalls,
               StoreCall("create", UnsealKeysSecret, secrets, o.err))
        /\ persisted' = ~o.err
        /\ IF o.err THEN PerPodContinue
           ELSE IF status.Sealed
           THEN pc' = "pp:getSecret" /\ idx' = idx /\ rangeLeft' = {}
           ELSE PerPodContinue
    /\ UNCHANGED <<replicaVars, dirVars, serverVars, cfgVars,
                   worldVars, vault, pods, initialized, initResp, unsealSecret,
                   keyIdx, initCalls, initLog, unsealCalls, scanProbe, sealProbe, prev,
                   probeIn, probeOut, status, discoveries, execVars>>

\* unsealVault: unsealSecret, err := kubeClient.GetSecret(...)
UnsealVaultGetSecret ==
    /\ pc = "pp:getSecret"
    /\ \E o \in GetSecret(secrets, UnsealKeysSecret) :
        /\ unsealSecret' = o.secret
        /\ secrets' = o.after
        /\ IF o.err \/ DOMAIN o.secret.data = {}
           THEN PerPodContinue
           ELSE pc' = "pp:range" /\ idx' = idx
                /\ rangeLeft' = DOMAIN o.secret.data
    /\ UNCHANGED <<replicaVars, dirVars, serverVars, cfgVars,
                   worldVars, vault, pods, initialized, initResp, keyIdx, histVars,
                   probeIn, probeOut, status,
                   logVars, execVars>>

\* The position of the share a field of the KeyRecord was written from.
FieldPosition(n) ==
    CHOOSE j \in 1..defaultSecretShares : SecretKeyName(j) = n

\* unsealVault: one iteration of `for key := range unsealSecret.Data`.  The
\* iteration order of a Go map is unspecified: any key not yet visited may
\* come next.
UnsealVaultRange ==
    /\ pc = "pp:range"
    /\ LET p == pods[idx] IN
       \E n \in rangeLeft :
        LET key == Str(unsealSecret.data[n]) IN
        \E o \in EnvUnseal(p, vault[p], key) :
         LET failed == UnsealWithKey(o.resp) IN
         /\ vault' = [vault EXCEPT ![p] = o.after]
         /\ unsealCalls' = [unsealCalls EXCEPT ![p] =
                Append(@, UnsealCall(FieldPosition(n), key, o.resp))]
         /\ IF failed \/ rangeLeft = {n}
            THEN PerPodContinue
            ELSE pc' = "pp:range" /\ idx' = idx
                 /\ rangeLeft' = rangeLeft \ {n}
    /\ UNCHANGED <<replicaVars, dirVars, serverVars, cfgVars,
                   worldVars, secrets, pods, initialized, initResp,
                   unsealSecret, keyIdx, initCalls, initLog, scanProbe, sealProbe,
                   persisted, prev, probeIn, probeOut, status,
                   logVars, execVars>>

PerPodNext ==
    \/ PerPodSleep
    \/ PerPodDiscover
    \/ PerPodCheckStatus
    \/ InitializeVault
    \/ InitializeVaultStoreToken
    \/ InitializeVaultStoreKeys
    \/ UnsealVaultGetSecret
    \/ UnsealVaultRange

PerPodSpec == PerPodInit /\ [][PerPodNext]_vars

(***************************************************************************)
(* The update-first loop: the controller source embedded in src/Dockerfile *)
(* whose initializeVault updates a record before it tries to create it and *)
(* whose unsealVault applies the sorted keys and probes the result.        *)
(***************************************************************************)
\* One pod is listed, and calls may fail.
UpdateFirstInit ==
    /\ faults = TRUE
    /\ fleet \in {l \in PodLists : Len(l) = 1}
    /\ vault = [p \in Pods |-> FreshVault]
    /\ secrets = [n \in SecretNames |-> NoSecret]
    /\ pc = "uf:discover"
    /\ NoTick
    /\ probeIn = TransportError
    /\ probeOut = ProbeErr
    /\ rangeLeft = {}
    /\ status = NoStatus
    /\ keySeq = <<>>
    /\ result = NoResult
    /\ allReady = TRUE
    /\ storeCalls = <<>>
    /\ discoveries = 0
    /\ handler = NoRequest
    /\ peer = FreshReplica
    /\ keysDir = NoKeysDir
    /\ fileReads = <<>>
    /\ environ = NoEnviron
    /\ cfg = LoadConfig(environ)

\* `continue` of the `range pods` loop, or its end and the sleep.
UpdateFirstContinue ==
    IF idx < Len(pods)
    THEN idx' = idx + 1 /\ pc' = "uf:status"
    ELSE idx' = 0 /\ pc' = "uf:sleep"

\* Back in main after initializeVault returned nil: `if status.Sealed`.
UpdateFirstAfterInit ==
    IF status.Sealed
    THEN pc' = "uf:getSecret" /\ idx' = idx
    ELSE UpdateFirstContinue

\* time.Sleep(cfg.CheckInterval)
UpdateFirstSleep ==
    /\ pc = "uf:sleep"
    /\ pc' = "uf:discover"
    /\ discoveries' = 0
    /\ UNCHANGED <<replicaVars, dirVars, serverVars, cfgVars,
                   envVars, pods, idx, initialized, initResp, unsealSecret,
                   keyIdx, histVars, otherVars, storeCalls, execVars>>

\* pods, err := k8sClient.GetVaultPods(...); on an error or an empty list
\* the loop continues without sleeping.
UpdateFirstDiscover ==
    /\ pc = "uf:discover"
    /\ \E r \in GetVaultPods :
        /\ pods' = r.pods
        /\ IF r.err \/ Len(r.pods) = 0
           THEN pc' = "uf:discover" /\ idx' = 0
           ELSE pc' = "uf:status" /\ idx' = 1
    /\ initResp' = NoInitResp
    /\ unsealSecret' = NoSecret
    /\ status' = NoStatus
    /\ keySeq' = <<>>
    /\ keyIdx' = 0
    /\ result' = NoResult
    /\ allReady' = allReady
    /\ NoHistory
    /\ UNCHANGED <<replicaVars, dirVars, serverVars, cfgVars,
                   envVars, initialized, probeIn, probeOut, rangeLeft>>

\* status, err := vaultClient.CheckStatus(), and the branch on the status.
UpdateFirstCheckStatus ==
    /\ pc = "uf:status"
    /\ LET p == pods[idx] IN
       \E r \in {CheckStatus(h) : h \in HealthResponses(vault[p])} :
        /\ sealProbe' = [sealProbe EXCEPT ![p] = Probed(r)]
        /\ status' = r.status
        /\ IF r.err THEN UpdateFirstContinue
           ELSE IF ~r.status.Initialized THEN pc' = "uf:init" /\ idx' = idx
           ELSE IF r.status.Sealed THEN pc' = "uf:getSecret" /\ idx' = idx
           ELSE UpdateFirstContinue
    /\ UNCHANGED <<replicaVars, dirVars, serverVars, cfgVars,
                   envVars, pods, initialized, initResp, unsealSecret, keyIdx,
                   initCalls, initLog, unsealCalls, scanProbe, persisted, prev,
                   probeIn, probeOut, rangeLeft, logVars, execVars>>

\* initializeVault: resp, err := vaultClient.Initialize()
UpdateFirstInitialize ==
    /\ pc = "uf:init"
    /\ LET p == pods[idx] IN
       \E o \in EnvInit(p, vault[p], InitRequest) :
        /\ vault' = [vault EXCEPT ![p] = o.after]
        /\ initCalls' = Append(initCalls, p)
        /\ initLog' = Append(initLog, InitCall(InitRequest, o.resp))
        /\ initResp' = Initialize(o.resp)
        /\ IF initResp'.err THEN UpdateFirstContinue
           ELSE pc' = "uf:updateToken" /\ idx' = idx
    /\ UNCHANGED <<replicaVars, dirVars, serverVars, cfgVars,
                   worldVars, secrets, pods, initialized, unsealSecret, keyIdx,
                   unsealCalls, scanProbe, sealProbe, persisted, prev,
                   otherVars, logVars, execVars>>

\* initializeVault: kubeClient.UpdateSecret(rootTokenSecret)
UpdateRootToken ==
    /\ pc = "uf:updateToken"
    /\ \E o \in UpdateSecret(secrets, RootTokenSecret,
                              RootTokenData(initResp.RootToken)) :
        /\ secrets' = o.after
        /\ storeCalls' = Append(storeCalls,
               StoreCall("update", RootTokenSecret, secrets, o.err))
        /\ pc' = IF o.err THEN "uf:createToken" ELSE "uf:updateKeys"
    /\ UNCHANGED <<replicaVars, dirVars, serverVars, cfgVars,
                   worldVars, vault, pods, idx, initialized, initResp,
                   unsealSecret, keyIdx, histVars, otherVars, discoveries,
                   execVars>>

\* initializeVault: the update failed, kubeClient.CreateSecret(rootTokenSecret)
CreateRootTokenAfterUpdate ==
    /\ pc = "uf:createToken"
    /\ \E o \in CreateSecret(secrets, RootTokenSecret,
                              RootTokenData(initResp.RootToken)) :
        /\ secrets' = o.after
        /\ storeCalls' = Append(storeCalls,
               StoreCall("create", RootTokenSecret, secrets, o.err))
        /\ IF o.err THEN UpdateFirstContinue
           ELSE pc' = "uf:updateKeys" /\ idx' = idx
    /\ UNCHANGED <<replicaVars, dirVars, serverVars, cfgVars,
                   worldVars, vault, pods, initialized, initResp, unsealSecret,
                   keyIdx, histVars, otherVars, discoveries, execVars>>

\* initializeVault: kubeClient.UpdateSecret(unsealKeysSecret)
UpdateUnsealKeys ==
    /\ pc = "uf:updateKeys"
    /\ \E o \in UpdateSecret(secrets, UnsealKeysSecret,
                              UnsealKeysData(initResp.Keys)) :
        /\ secrets' = o.after
        /\ storeCalls' = Append(storeCalls,
               StoreCall("update", UnsealKeysSecret, secrets, o.err))
        /\ persisted' = ~o.err
        /\ IF o.err THEN pc' = "uf:createKeys" /\ idx' = idx
           ELSE UpdateFirstAfterInit
    /\ UNCHANGED <<replicaVars, dirVars, serverVars, cfgVars,
                   worldVars, vault, pods, initialized, initResp, unsealSecret,
                   keyIdx, initCalls, initLog, unsealCalls, scanProbe, sealProbe, prev,
                   otherVars, discoveries, execVars>>

\* initializeVault: the update failed, kubeClient.CreateSecret(unsealKeysSecret)
CreateUnsealKeysAfterUpdate ==
    /\ pc = "uf:createKeys"
    /\ \E o \in CreateSecret(secrets, UnsealKeysSecret,
                              UnsealKeysData(initResp.Keys)) :
        /\ secrets' = o.after
        /\ storeCalls' = Append(storeCalls,
               StoreCall("create", UnsealKeysSecret, secrets, o.err))
        /\ persisted' = ~o.err
        /\ IF o.err THEN UpdateFirstContinue ELSE UpdateFirstAfterInit
    /\ UNCHANGED <<replicaVars, dirVars, serverVars, cfgVars,
                   worldVars, vault, pods, initialized, initResp, unsealSecret,
                   keyIdx, initCalls, initLog, unsealCalls, scanProbe, sealProbe, prev,
                   otherVars, discoveries, execVars>>

\* unsealVault: `keys`, the values of key1, key2, ... up to len(Data) that
\* the record holds, in that order.
RECURSIVE SortedKeysFrom(_, _)
SortedKeysFrom(data, i) ==
    IF i > Cardinality(DOMAIN data) THEN <<>>
    ELSE (IF KeyName(i) \in DOMAIN data
          THEN <<Str(data[KeyName(i)])>> ELSE <<>>)
         \o SortedKeysFrom(data, i + 1)
SortedKeys(data) == SortedKeysFrom(data, 1)

\* unsealVault: GetSecret, the sorted keys, and the error when there is none.
SortedGetSecret ==
    /\ pc = "uf:getSecret"
    /\ \E o \in GetSecret(secrets, UnsealKeysSecret) :
        /\ unsealSecret' = o.secret
        /\ secrets' = o.after
        /\ keySeq' = IF o.err THEN <<>> ELSE SortedKeys(o.secret.data)
        /\ IF o.err \/ keySeq' = <<>>
           THEN keyIdx' = 0 /\ UpdateFirstContinue
           ELSE keyIdx' = 1 /\ pc' = "uf:apply" /\ idx' = idx
    /\ UNCHANGED <<replicaVars, dirVars, serverVars, cfgVars,
                   worldVars, vault, pods, initialized, initResp, histVars, otherVars,
                   logVars, result, allReady>>

\* `for _, key := range keys`: a failed call is logged and the loop goes on
\* (`continue`); it ends after the last key.
AfterFailedKey(failed, i) == i >= Len(keySeq)

\* unsealVault: vaultClient.UnsealWithKey(key) for the next of the keys.
SortedApplyKey ==
    /\ pc = "uf:apply"
    /\ LET p == pods[idx]
           key == keySeq[keyIdx] IN
       \E o \in EnvUnseal(p, vault[p], key) :
        /\ vault' = [vault EXCEPT ![p] = o.after]
        /\ unsealCalls' = [unsealCalls EXCEPT ![p] =
               Append(@, UnsealCall(keyIdx, key, o.resp))]
        /\ IF AfterFailedKey(UnsealWithKey(o.resp), keyIdx)
           THEN keyIdx' = 0 /\ pc' = "uf:final"
           ELSE keyIdx' = keyIdx + 1 /\ pc' = "uf:apply"
    /\ UNCHANGED <<replicaVars, dirVars, serverVars, cfgVars,
                   worldVars, secrets, pods, idx, initialized, initResp,
                   unsealSecret, initCalls, initLog, scanProbe, sealProbe, persisted,
                   prev, otherVars, logVars, execVars>>

\* unsealVault: the final CheckStatus; an error or a sealed Vault is returned
\* as an error, which main logs before it continues.
SortedFinalStatus ==
    /\ pc = "uf:final"
    /\ LET p == pods[idx] IN
       \E r \in {CheckStatus(h) : h \in HealthResponses(vault[p])} :
        result' = IF r.err \/ r.status.Sealed THEN "err" ELSE "ok"
    /\ UpdateFirstContinue
    /\ UNCHANGED <<replicaVars, dirVars, serverVars, cfgVars,
                   envVars, pods, initialized, initResp, unsealSecret, keyIdx,
                   histVars, otherVars, logVars, keySeq, allReady>>

UpdateFirstNext ==
    \/ UpdateFirstSleep
    \/ UpdateFirstDiscover
    \/ UpdateFirstCheckStatus
    \/ UpdateFirstInitialize
    \/ UpdateRootToken
    \/ CreateRootTokenAfterUpdate
    \/ UpdateUnsealKeys
    \/ CreateUnsealKeysAfterUpdate
    \/ SortedGetSecret
    \/ SortedApplyKey
    \/ SortedFinalStatus

UpdateFirstSpec == UpdateFirstInit /\ [][UpdateFirstNext]_vars

(***************************************************************************)
(* The per-instance loop: the first controller source embedded in          *)
(* src/Dockerfile, built on the Vault client of src/unnamed/part_005.  It  *)
(* initializes every pod it finds uninitialized, unseals it with the keys  *)
(* of the init response, and falls back to the local key files when the    *)
(* KeyRecord cannot be read.                                               *)
(***************************************************************************)
\* UnsealWithKey of that client: TRUE when it returns an error; the body of
\* the answer is not read.
UnsealWithKeyStatusOnly(resp) == resp.transport \/ resp.code # StatusOK

\* The unseal loop of UnsealWithKeysFromDir(keysDir): TRUE on an error.
UnsealFromDirStep(resp) ==
    IF resp.transport THEN TRUE
    ELSE IF resp.code # StatusOK THEN TRUE
    ELSE IF ~resp.body.ok THEN TRUE
    ELSE FALSE

\* What the files key1, key2, key3 of the keys directory may hold: nothing
\* readable, or three shares of one of the pods.
KeyFiles ==
    {<<>>} \cup {[i \in 1..3 |-> Share(q, i)] : q \in Pods}

\* Mutant: a sealed pod is initialized as well.
NotInitializedOrSealed(st) == ~st.Initialized \/ st.Sealed

\* `if !status.Initialized`
NotInitialized(st) == ~st.Initialized

PerInstanceInit ==
    /\ faults = TRUE
    /\ fleet \in {l \in PodLists : Len(l) = 1}
    /\ vault = [p \in Pods |-> FreshVault]
    /\ secrets = [n \in SecretNames |-> NoSecret]
    /\ pc = "pi:discover"
    /\ NoTick
    /\ probeIn = TransportError
    /\ probeOut = ProbeErr
    /\ rangeLeft = {}
    /\ status = NoStatus
    /\ keySeq = <<>>
    /\ result = NoResult
    /\ allReady = TRUE
    /\ storeCalls = <<>>
    /\ discoveries = 0
    /\ handler = NoRequest
    /\ peer = FreshReplica
    /\ keysDir = NoKeysDir
    /\ fileReads = <<>>
    /\ environ = NoEnviron
    /\ cfg = LoadConfig(environ)

\* `continue` of the `range pods` loop, or its end and the sleep.
PerInstanceContinue ==
    /\ keyIdx' = 0
    /\ IF idx < Len(pods)
       THEN idx' = idx + 1 /\ pc' = "pi:status"
       ELSE idx' = 0 /\ pc' = "pi:sleep"

\* time.Sleep(cfg.CheckInterval)
PerInstanceSleep ==
    /\ pc = "pi:sleep"
    /\ pc' = "pi:discover"
    /\ discoveries' = 0
    /\ UNCHANGED <<replicaVars, dirVars, serverVars, cfgVars,
                   envVars, pods, idx, initialized, initResp, unsealSecret,
                   keyIdx, histVars, otherVars, storeCalls, execVars>>

\* pods, err := k8sClient.GetVaultPods(...); an error sleeps, an empty list
\* leaves the `range` loop nothing to do.
PerInstanceDiscover ==
    /\ pc = "pi:discover"
    /\ \E r \in GetVaultPods :
        /\ pods' = r.pods
        /\ IF r.err \/ Len(r.pods) = 0
           THEN pc' = "pi:sleep" /\ idx' = 0
           ELSE pc' = "pi:status" /\ idx' = 1
    /\ initResp' = NoInitResp
    /\ unsealSecret' = NoSecret
    /\ status' = NoStatus
    /\ keySeq' = <<>>
    /\ keyIdx' = 0
    /\ NoHistory
    /\ UNCHANGED <<replicaVars, dirVars, serverVars, cfgVars,
                   envVars, initialized, probeIn, probeOut, rangeLeft, result,
                   allReady>>

\* status, err := vaultClient.CheckStatus(), and the branch on the status.
PerInstanceCheckStatus ==
    /\ pc = "pi:status"
    /\ LET p == pods[idx] IN
       \E r \in {CheckStatusHealth(h) : h \in HealthResponses(vault[p])} :
        /\ sealProbe' = [sealProbe EXCEPT ![p] = Probed(r)]
        /\ status' = r.status
        /\ IF r.err THEN PerInstanceContinue
           ELSE IF NotInitialized(r.status)
           THEN pc' = "pi:init" /\ idx' = idx /\ keyIdx' = 0
           ELSE IF r.status.Sealed
           THEN pc' = "pi:getSecret" /\ idx' = idx /\ keyIdx' = 0
           ELSE PerInstanceContinue
    /\ UNCHANGED <<replicaVars, dirVars, serverVars, cfgVars,
                   envVars, pods, initialized, initResp, unsealSecret,
                   initCalls, initLog, unsealCalls, scanProbe, persisted, prev,
                   probeIn, probeOut, rangeLeft, logVars, execVars>>

\* initResp, err := vaultClient.Initialize()
PerInstanceInitialize ==
    /\ pc = "pi:init"
    /\ LET p == pods[idx] IN
       \E o \in EnvInit(p, vault[p], InitRequest) :
        /\ vault' = [vault EXCEPT ![p] = o.after]
        /\ initCalls' = Append(initCalls, p)
        /\ initLog' = Append(initLog, InitCall(InitRequest, o.resp))
        /\ initResp' = Initialize(o.resp)
        /\ IF initResp'.err THEN PerInstanceContinue
           ELSE pc' = "pi:storeKeys" /\ idx' = idx /\ keyIdx' = 0
    /\ UNCHANGED <<replicaVars, dirVars, serverVars, cfgVars,
                   worldVars, secrets, pods, initialized, unsealSecret,
                   unsealCalls, scanProbe, sealProbe, persisted, prev,
                   otherVars, logVars, execVars>>

\* k8sClient.CreateUnsealKeySecret(...); an error is logged.
PerInstanceStoreKeys ==
    /\ pc = "pi:storeKeys"
    /\ \E o \in CreateUnsealKeySecret(secrets, initResp.Keys) :
        /\ secrets' = o.after
        /\ storeCalls' = Append(storeCalls,
               StoreCall("create", UnsealKeysSecret, secrets, o.err))
    /\ pc' = "pi:storeToken"
    /\ UNCHANGED <<replicaVars, dirVars, serverVars, cfgVars,
                   worldVars, vault, pods, idx, initialized, initResp,
                   unsealSecret, keyIdx, histVars, otherVars, discoveries,
                   execVars>>

\* k8sClient.CreateRootTokenSecret(...); an error is logged.
PerInstanceStoreToken ==
    /\ pc = "pi:storeToken"
    /\ \E o \in CreateRootTokenSecret(secrets, initResp.RootToken) :
        /\ secrets' = o.after
        /\ storeCalls' = Append(storeCalls,
               StoreCall("create", RootTokenSecret, secrets, o.err))
        /\ persisted' = (~o.err /\ ~storeCalls[Len(storeCalls)].err)
    /\ pc' = "pi:unsealNew"
    /\ keyIdx' = 1
    /\ UNCHANGED <<replicaVars, dirVars, serverVars, cfgVars,
                   worldVars, vault, pods, idx, initialized, initResp,
                   unsealSecret, initCalls, initLog, unsealCalls, scanProbe, sealProbe,
                   prev, otherVars, discoveries, execVars>>

\* `initResp.Keys[i]` with i beyond the keys of the response: the index is
\* out of range and the process panics.
PerInstanceIndexPanic ==
    /\ pc = "pi:unsealNew"
    /\ keyIdx > Len(initResp.Keys)
    /\ pc' = "crashed"
    /\ UNCHANGED <<replicaVars, dirVars, serverVars, cfgVars,
                   envVars, pods, idx, initialized, initResp, unsealSecret,
                   keyIdx, histVars, otherVars, logVars, execVars>>

\* `for i := 0; i < 3; i++ { UnsealWithKey(initResp.Keys[i]) }`, then
\* `continue`; an error breaks the loop.
PerInstanceUnsealNew ==
    /\ pc = "pi:unsealNew"
    /\ keyIdx <= Len(initResp.Keys)
    /\ LET p == pods[idx]
           key == initResp.Keys[keyIdx] IN
       \E o \in EnvUnseal(p, vault[p], key) :
        LET failed == UnsealWithKeyStatusOnly(o.resp) IN
        /\ vault' = [vault EXCEPT ![p] = o.after]
        /\ unsealCalls' = [unsealCalls EXCEPT ![p] =
               Append(@, [UnsealCall(keyIdx, key, o.resp)
                             EXCEPT !.err = failed])]
        /\ IF failed \/ keyIdx >= UnsealKeyCount
           THEN PerInstanceContinue
           ELSE keyIdx' = keyIdx + 1 /\ idx' = idx /\ pc' = "pi:unsealNew"
    /\ UNCHANGED <<replicaVars, dirVars, serverVars, cfgVars,
                   worldVars, secrets, pods, initialized, initResp,
                   unsealSecret, initCalls, initLog, scanProbe, sealProbe, persisted,
                   prev, otherVars, logVars, execVars>>

\* secret, err := k8sClient.GetSecret(..., vault.UnsealKeysSecret)
PerInstanceGetSecret ==
    /\ pc = "pi:getSecret"
    /\ \E o \in GetSecret(secrets, UnsealKeysSecret) :
        /\ unsealSecret' = o.secret
        /\ secrets' = o.after
        /\ pc' = IF o.err THEN "pi:fallback" ELSE "pi:apply"
        /\ keyIdx' = IF o.err THEN 0 ELSE 1
    /\ UNCHANGED <<replicaVars, dirVars, serverVars, cfgVars,
                   worldVars, vault, pods, idx, initialized, initResp, histVars,
                   otherVars, logVars, execVars>>

\* vaultClient.UnsealWithKeysFromDir(""): the three key files are read; an
\* unreadable file returns an error before any call is made.
PerInstanceFallback ==
    /\ pc = "pi:fallback"
    /\ \E files \in KeyFiles :
        /\ keySeq' = files
        /\ IF files = <<>>
           THEN result' = "err" /\ PerInstanceContinue
           ELSE result' = NoResult /\ keyIdx' = 1 /\ idx' = idx
                /\ pc' = "pi:dir"
    /\ UNCHANGED <<replicaVars, dirVars, serverVars, cfgVars,
                   envVars, pods, initialized, initResp, unsealSecret,
                   histVars, otherVars, logVars, allReady>>

\* UnsealWithKeysFromDir: the next key of the files is posted; any error
\* returns, and main continues with the next pod either way.
PerInstanceDirApply ==
    /\ pc = "pi:dir"
    /\ LET p == pods[idx]
           key == keySeq[keyIdx] IN
       \E o \in EnvUnseal(p, vault[p], key) :
        LET failed == UnsealFromDirStep(o.resp) IN
        /\ vault' = [vault EXCEPT ![p] = o.after]
        /\ unsealCalls' = [unsealCalls EXCEPT ![p] =
               Append(@, [UnsealCall(keyIdx, key, o.resp)
                             EXCEPT !.err = failed])]
        /\ IF failed \/ keyIdx >= Len(keySeq)
           THEN result' = (IF failed THEN "err" ELSE "ok")
                /\ PerInstanceContinue
           ELSE result' = result /\ keyIdx' = keyIdx + 1 /\ idx' = idx
                /\ pc' = "pi:dir"
    /\ UNCHANGED <<replicaVars, dirVars, serverVars, cfgVars,
                   worldVars, secrets, pods, initialized, initResp,
                   unsealSecret, initCalls, initLog, scanProbe, sealProbe, persisted,
                   prev, otherVars, logVars, keySeq, allReady>>

\* The key loop over the KeyRecord moves on, or is done with the pod.
PerInstanceNextKey ==
    IF keyIdx < UnsealKeyCount
    THEN keyIdx' = keyIdx + 1 /\ idx' = idx /\ pc' = "pi:apply"
    ELSE PerInstanceContinue

\* key, ok := secret.Data["key<i>"]; !ok: log and continue; otherwise
\* vaultClient.UnsealWithKey(string(key)), where an error breaks the loop.
PerInstanceApplyKey ==
    /\ pc = "pi:apply"
    /\ IF KeyName(keyIdx) \notin DOMAIN unsealSecret.data
       THEN /\ PerInstanceNextKey
            /\ UNCHANGED <<replicaVars, dirVars, serverVars, cfgVars,
                           vault, unsealCalls>>
       ELSE LET p == pods[idx]
                key == Str(unsealSecret.data[KeyName(keyIdx)]) IN
            \E o \in EnvUnseal(p, vault[p], key) :
             LET failed == UnsealWithKeyStatusOnly(o.resp) IN
             /\ vault' = [vault EXCEPT ![p] = o.after]
             /\ unsealCalls' = [unsealCalls EXCEPT ![p] =
                    Append(@, [UnsealCall(keyIdx, key, o.resp)
                                  EXCEPT !.err = failed])]
             /\ IF failed THEN PerInstanceContinue ELSE PerInstanceNextKey
    /\ UNCHANGED <<replicaVars, dirVars, serverVars, cfgVars,
                   worldVars, secrets, pods, initialized, initResp,
                   unsealSecret, initCalls, initLog, scanProbe, sealProbe, persisted,
                   prev, otherVars, logVars, execVars>>

PerInstanceNext ==
    \/ PerInstanceSleep
    \/ PerInstanceDiscover
    \/ PerInstanceCheckStatus
    \/ PerInstanceInitialize
    \/ PerInstanceStoreKeys
    \/ PerInstanceStoreToken
    \/ PerInstanceIndexPanic
    \/ PerInstanceUnsealNew
    \/ PerInstanceGetSecret
    \/ PerInstanceFallback
    \/ PerInstanceDirApply
    \/ PerInstanceApplyKey

PerInstanceSpec == PerInstanceInit /\ [][PerInstanceNext]_vars

(***************************************************************************)
(* The readiness endpoint: Server.handleReady of src/pkg/server/server.go, *)
(* one request after the other, against servers in any state.              *)
(***************************************************************************)
StatusServiceUnavailable == 503
StatusMethodNotAllowed == 405
Methods == {"GET", "POST"}

\* The states a Vault server can be in: sealed until it is initialized.
ServerStates == {v \in ReportedStates : ~v.inited => v.sealed}

\* A JSON object without the fields of the status: the decoder leaves the
\* zero values and returns no error.
EmptyObjectBody == [ok |-> TRUE, initialized |-> FALSE, sealed |-> FALSE]

\* The answers to the seal-status query of handleReady.
ReadyResponses(v) ==
    HealthResponses(v) \cup
        {[transport |-> FALSE, code |-> StatusOK, body |-> EmptyObjectBody]}

ReadyInit ==
    /\ faults = TRUE
    /\ fleet = <<>>
    /\ vault \in [Pods -> ServerStates]
    /\ secrets \in [SecretNames -> {NoSecret, [NoSecret EXCEPT !.exists = TRUE]}]
    /\ pc = "rd:done"
    /\ NoTick
    /\ probeIn = TransportError
    /\ probeOut = ProbeErr
    /\ rangeLeft = {}
    /\ status = NoStatus
    /\ keySeq = <<>>
    /\ result = 0
    /\ allReady = TRUE
    /\ storeCalls = <<>>
    /\ discoveries = 0
    /\ handler = NoRequest
    /\ peer = FreshReplica
    /\ keysDir = NoKeysDir
    /\ fileReads = <<>>
    /\ environ = NoEnviron
    /\ cfg = LoadConfig(environ)

\* The positions at which a handler has returned: handleReady, or
\* handleHealth called with the method named.
Served == {"rd:done"} \cup {"rd:health:" \o m : m \in Methods}

\* Mutant: the health endpoint answers 503.
handleHealthUnavailable(m) ==
    IF m # "GET" THEN StatusMethodNotAllowed ELSE StatusServiceUnavailable

\* handleHealth: what it answers to a request of method m.
handleHealth(m) ==
    IF m # "GET" THEN StatusMethodNotAllowed ELSE StatusOK

\* A request for /health arrives and is answered.
HealthRequest ==
    /\ pc \in Served
    /\ \E m \in Methods :
        /\ result' = handleHealth(m)
        /\ pc' = "rd:health:" \o m
    /\ UNCHANGED <<replicaVars, dirVars, serverVars, cfgVars,
                   envVars, pods, idx, initialized, initResp, unsealSecret,
                   keyIdx, histVars, otherVars, logVars, keySeq, allReady>>

\* A request arrives: anything but GET is answered 405; `allReady := true`.
ReadyRequest ==
    /\ pc \in Served
    /\ \E m \in Methods :
        IF m # "GET"
        THEN result' = StatusMethodNotAllowed /\ pc' = "rd:done"
        ELSE result' = 0 /\ pc' = "rd:discover"
    /\ allReady' = TRUE
    /\ discoveries' = 0
    /\ UNCHANGED <<replicaVars, dirVars, serverVars, cfgVars,
                   envVars, pods, idx, initialized, initResp, unsealSecret,
                   keyIdx, histVars, otherVars, storeCalls, keySeq>>

\* pods, err := s.k8sClient.GetVaultPods("vault"); an error answers 503.
ReadyDiscover ==
    /\ pc = "rd:discover"
    /\ \E r \in GetVaultPods :
        /\ pods' = r.pods
        /\ IF r.err
           THEN result' = StatusServiceUnavailable /\ pc' = "rd:done"
                /\ idx' = 0
           ELSE IF Len(r.pods) = 0
           THEN result' = result /\ pc' = "rd:answer" /\ idx' = 0
           ELSE result' = result /\ pc' = "rd:probe" /\ idx' = 1
    /\ NoHistory
    /\ UNCHANGED <<replicaVars, dirVars, serverVars, cfgVars,
                   envVars, initialized, initResp, unsealSecret, keyIdx,
                   otherVars, keySeq, allReady>>

\* The body of `for _, podIP := range pods`: CheckStatus, and allReady is
\* cleared on an error or a sealed Vault.
ReadyProbe ==
    /\ pc = "rd:probe"
    /\ LET p == pods[idx] IN
       \E r \in {CheckStatus(h) : h \in ReadyResponses(vault[p])} :
        /\ sealProbe' = [sealProbe EXCEPT ![p] = Probed(r)]
        /\ allReady' = IF r.err THEN FALSE
                       ELSE IF r.status.Sealed THEN FALSE
                       ELSE allReady
    /\ IF idx < Len(pods)
       THEN idx' = idx + 1 /\ pc' = "rd:probe"
       ELSE idx' = 0 /\ pc' = "rd:answer"
    /\ UNCHANGED <<replicaVars, dirVars, serverVars, cfgVars,
                   envVars, pods, initialized, initResp, unsealSecret, keyIdx,
                   initCalls, initLog, unsealCalls, scanProbe, persisted, prev,
                   otherVars, logVars, keySeq, result>>

\* `if !allReady` answers 503, otherwise 200.
ReadyAnswer ==
    /\ pc = "rd:answer"
    /\ result' = IF ~allReady THEN StatusServiceUnavailable ELSE StatusOK
    /\ pc' = "rd:done"
    /\ UNCHANGED <<replicaVars, dirVars, serverVars, cfgVars,
                   envVars, pods, idx, initialized, initResp, unsealSecret,
                   keyIdx, histVars, otherVars, logVars, keySeq, allReady>>

ReadyNext ==
    \/ HealthRequest
    \/ ReadyRequest
    \/ ReadyDiscover
    \/ ReadyProbe
    \/ ReadyAnswer

ReadySpec == ReadyInit /\ [][ReadyNext]_vars

(***************************************************************************)
(* The readiness handler beside the loop: main starts the server in a      *)
(* goroutine (src/main.go:28-34) and then runs the loop, so the steps of   *)
(* handleReady (src/pkg/server/server.go:63-102) interleave with the steps *)
(* of the loop at every call the handler makes.  The handler's locals are  *)
(* the fields of `handler`; `listing` and `probes` record what the         *)
(* registry and the servers answered to this request.                      *)
(***************************************************************************)
\* Mutant: the handler ranges over the loop's `pods`.
HandlerPodsShared(r) == pods

\* `pods, err := s.k8sClient.GetVaultPods("vault")`: the handler's own local.
HandlerPods(r) == r.pods

\* One probe of the handler: the pod asked and what CheckStatus returned.
HandlerProbed(p, r) == [pod |-> p, err |-> r.err, sealed |-> r.status.Sealed]

\* Two pods are listed, and calls may fail.
ConcurrentInit ==
    /\ faults = TRUE
    /\ fleet \in {l \in PodLists : Len(l) = 2}
    /\ Start

\* Mutant: the handler starts from `allReady := false`.
AllReadyAtStartFalse == FALSE

\* `allReady := true`
AllReadyAtStart == TRUE

\* A request for /ready arrives: anything but GET is answered 405;
\* `allReady := true`.
HandlerRequest ==
    /\ handler.pc \in {"idle", "done"}
    /\ \E m \in Methods :
        handler' = IF m # "GET"
                   THEN [NoRequest EXCEPT !.pc = "done", !.method = m,
                                          !.code = StatusMethodNotAllowed]
                   ELSE [NoRequest EXCEPT !.pc = "discover", !.method = m,
                                          !.allReady = AllReadyAtStart]
    /\ UNCHANGED <<replicaVars, dirVars,
                   cfgVars, envVars, mainVars, histVars, otherVars, logVars,
                   execVars>>

\* pods, err := s.k8sClient.GetVaultPods("vault"); an error answers 503.
HandlerDiscover ==
    /\ handler.pc = "discover"
    /\ \E r \in GetVaultPods :
        handler' =
            IF r.err
            THEN [handler EXCEPT !.listErr = TRUE, !.pc = "done",
                                 !.code = StatusServiceUnavailable]
            ELSE [handler EXCEPT !.listing = r.pods,
                                 !.pods = HandlerPods(r),
                                 !.idx = IF Len(HandlerPods(r)) = 0
                                         THEN 0 ELSE 1,
                                 !.pc = IF Len(HandlerPods(r)) = 0
                                        THEN "answer" ELSE "probe"]
    /\ UNCHANGED <<replicaVars, dirVars,
                   cfgVars, envVars, mainVars, histVars, otherVars, logVars,
                   execVars>>

\* The body of `for _, podIP := range pods`: CheckStatus, and allReady is
\* cleared on an error or a sealed Vault.
HandlerProbe ==
    /\ handler.pc = "probe"
    /\ LET p == handler.pods[handler.idx] IN
       \E r \in {CheckStatus(h) : h \in ReadyResponses(vault[p])} :
        handler' =
            [handler EXCEPT
                !.probes = Append(@, HandlerProbed(p, r)),
                !.allReady = IF r.err THEN FALSE
                             ELSE IF r.status.Sealed THEN FALSE
                             ELSE @,
                !.idx = IF handler.idx < Len(handler.pods)
                        THEN handler.idx + 1 ELSE 0,
                !.pc = IF handler.idx < Len(handler.pods)
                       THEN "probe" ELSE "answer"]
    /\ UNCHANGED <<replicaVars, dirVars,
                   cfgVars, envVars, mainVars, histVars, otherVars, logVars,
                   execVars>>

\* `if !allReady` answers 503, otherwise 200.
HandlerAnswer ==
    /\ handler.pc = "answer"
    /\ handler' =
        [handler EXCEPT
            !.code = IF ~handler.allReady
                     THEN StatusServiceUnavailable ELSE StatusOK,
            !.pc = "done"]
    /\ UNCHANGED <<replicaVars, dirVars,
                   cfgVars, envVars, mainVars, histVars, otherVars, logVars,
                   execVars>>

HandlerNext ==
    \/ HandlerRequest
    \/ HandlerDiscover
    \/ HandlerProbe
    \/ HandlerAnswer

ConcurrentNext ==
    \/ Next
    \/ HandlerNext

ConcurrentSpec == ConcurrentInit /\ [][ConcurrentNext]_vars

\* The handler beside the loop when the registry may list any pods, none
\* included, and calls fail only for a reason of state.
AnyListingInit ==
    /\ faults = FALSE
    /\ fleet = <<>>
    /\ Start

AnyListingNext ==
    \/ LiveNext
    \/ HandlerNext

AnyListingSpec == AnyListingInit /\ [][AnyListingNext]_vars

(***************************************************************************)
(* Two replicas of the controller: two processes that run main of          *)
(* src/main.go against the same servers, registry and secret store.  The   *)
(* variables of the loop are those of the replica that takes the next      *)
(* step and `peer` holds those of the other one; SwitchReplica hands the   *)
(* processor over, so that the two loops interleave at every remote call.  *)
(***************************************************************************)
\* The locals and the history of the running replica.
RunningReplica ==
    [pc |-> pc, pods |-> pods, idx |-> idx, initialized |-> initialized,
     initResp |-> initResp, unsealSecret |-> unsealSecret, keyIdx |-> keyIdx,
     initCalls |-> initCalls, initLog |-> initLog,
     unsealCalls |-> unsealCalls, scanProbe |-> scanProbe,
     sealProbe |-> sealProbe, persisted |-> persisted, prev |-> prev,
     storeCalls |-> storeCalls, discoveries |-> discoveries,
     status |-> status, keySeq |-> keySeq, result |-> result]

ReplicaInit ==
    /\ faults = FALSE
    /\ fleet = <<>>
    /\ Start

\* The other replica runs from here on.
SwitchReplica ==
    /\ peer' = RunningReplica
    /\ pc' = peer.pc
    /\ pods' = peer.pods
    /\ idx' = peer.idx
    /\ initialized' = peer.initialized
    /\ initResp' = peer.initResp
    /\ unsealSecret' = peer.unsealSecret
    /\ keyIdx' = peer.keyIdx
    /\ initCalls' = peer.initCalls
    /\ initLog' = peer.initLog
    /\ unsealCalls' = peer.unsealCalls
    /\ scanProbe' = peer.scanProbe
    /\ sealProbe' = peer.sealProbe
    /\ persisted' = peer.persisted
    /\ prev' = peer.prev
    /\ storeCalls' = peer.storeCalls
    /\ discoveries' = peer.discoveries
    /\ status' = peer.status
    /\ keySeq' = peer.keySeq
    /\ result' = peer.result
    /\ UNCHANGED <<dirVars, serverVars, cfgVars, envVars, probeIn, probeOut,
                   rangeLeft, allReady>>

\* The steps of main.go that can be taken when calls fail only for a reason
\* of state, and the hand-over.
ReplicaNext ==
    \/ LiveNext
    \/ SwitchReplica

ReplicaSpec == ReplicaInit /\ [][ReplicaNext]_vars

\* Two replicas of the update-first loop embedded in src/Dockerfile, over
\* two listed pods.
ReplicaUpdateFirstInit ==
    /\ faults = FALSE
    /\ fleet \in {l \in PodLists : Len(l) = 2}
    /\ vault = [p \in Pods |-> FreshVault]
    /\ secrets = [n \in SecretNames |-> NoSecret]
    /\ pc = "uf:discover"
    /\ NoTick
    /\ probeIn = TransportError
    /\ probeOut = ProbeErr
    /\ rangeLeft = {}
    /\ status = NoStatus
    /\ keySeq = <<>>
    /\ result = NoResult
    /\ allReady = TRUE
    /\ storeCalls = <<>>
    /\ discoveries = 0
    /\ handler = NoRequest
    /\ peer = [FreshReplica EXCEPT !.pc = "uf:discover"]
    /\ keysDir = NoKeysDir
    /\ fileReads = <<>>
    /\ environ = NoEnviron
    /\ cfg = LoadConfig(environ)

ReplicaUpdateFirstNext ==
    \/ UpdateFirstNext
    \/ SwitchReplica

ReplicaUpdateFirstSpec ==
    ReplicaUpdateFirstInit /\ [][ReplicaUpdateFirstNext]_vars

(***************************************************************************)
(* The Unseal Executor on its own: Client.UnsealWithKey and                *)
(* Client.UnsealWithKeysFromDir of src/pkg/vault/client.go, called with    *)
(* any key sequence against a server in any state.                         *)
(***************************************************************************)
MaxKeys == 3

\* The keys a caller may hand over: the first shares of every pod.
CallerKeys == {Share(q, i) : q \in Pods, i \in 1..defaultSecretThreshold}
KeySequences == UNION {[1..n -> CallerKeys] : n \in 0..MaxKeys}

\* The states of the server called: not initialized, or initialized with
\* the threshold of the init request, sealed or not.
InitializedVault(sealed) ==
    [inited |-> TRUE, sealed |-> sealed,
     threshold |-> InitRequest.secret_threshold, progress |-> {}]
ExecutorTargets == {FreshVault, InitializedVault(TRUE), InitializedVault(FALSE)}

ExecutorInit ==
    /\ faults \in BOOLEAN
    /\ fleet = <<>>
    /\ idx \in Pods
    /\ \E v \in ExecutorTargets :
        /\ vault = [p \in Pods |-> IF p = idx THEN v ELSE FreshVault]
        /\ status = [Initialized |-> v.inited, Sealed |-> v.sealed]
    /\ secrets = [n \in SecretNames |-> NoSecret]
    /\ keySeq \in KeySequences
    /\ pc \in IF Len(keySeq) = 1 THEN {"ex:key", "ex:keys"} ELSE {"ex:keys"}
    /\ keyIdx = 1
    /\ result = NoResult
    /\ allReady = TRUE
    /\ pods = <<>>
    /\ initialized = FALSE
    /\ initResp = NoInitResp
    /\ unsealSecret = NoSecret
    /\ initCalls = <<>>
    /\ initLog = <<>>
    /\ unsealCalls = [p \in Pods |-> <<>>]
    /\ scanProbe = [p \in Pods |-> NotProbed]
    /\ sealProbe = [p \in Pods |-> NotProbed]
    /\ persisted = FALSE
    /\ prev = 0
    /\ probeIn = TransportError
    /\ probeOut = ProbeErr
    /\ rangeLeft = {}
    /\ storeCalls = <<>>
    /\ discoveries = 0
    /\ handler = NoRequest
    /\ peer = FreshReplica
    /\ keysDir = NoKeysDir
    /\ fileReads = <<>>
    /\ environ = NoEnviron
    /\ cfg = LoadConfig(environ)

\* The POST of UnsealWithKey with the key at keyIdx, and what it returns.
ExecutorPost(next) ==
    LET key == keySeq[keyIdx] IN
    \E o \in EnvUnseal(idx, vault[idx], key) :
        /\ vault' = [vault EXCEPT ![idx] = o.after]
        /\ unsealCalls' = [unsealCalls EXCEPT ![idx] =
               Append(@, UnsealCall(keyIdx, key, o.resp))]
        /\ IF UnsealWithKey(o.resp)
           THEN result' = "err" /\ pc' = "ex:returned" /\ keyIdx' = keyIdx
           ELSE next

\* err := client.UnsealWithKey(key)
ExecutorUnsealWithKey ==
    /\ pc = "ex:key"
    /\ ExecutorPost(result' = "ok" /\ pc' = "ex:returned" /\ keyIdx' = keyIdx)
    /\ UNCHANGED <<replicaVars, dirVars, serverVars, cfgVars,
                   worldVars, secrets, pods, idx, initialized, initResp,
                   unsealSecret, initCalls, initLog, scanProbe, sealProbe, persisted,
                   prev, otherVars, logVars, keySeq, allReady>>

\* UnsealWithKeysFromDir: one iteration of `for _, key := range keys`.
ExecutorNextKey ==
    /\ pc = "ex:keys"
    /\ keyIdx <= Len(keySeq)
    /\ ExecutorPost(result' = result /\ pc' = "ex:keys"
                        /\ keyIdx' = keyIdx + 1)
    /\ UNCHANGED <<replicaVars, dirVars, serverVars, cfgVars,
                   worldVars, secrets, pods, idx, initialized, initResp,
                   unsealSecret, initCalls, initLog, scanProbe, sealProbe, persisted,
                   prev, otherVars, logVars, keySeq, allReady>>

\* UnsealWithKeysFromDir: `return nil` after the last key.
ExecutorReturn ==
    /\ pc = "ex:keys"
    /\ keyIdx > Len(keySeq)
    /\ result' = "ok"
    /\ pc' = "ex:returned"
    /\ UNCHANGED <<replicaVars, dirVars, serverVars, cfgVars,
                   envVars, pods, idx, initialized, initResp, unsealSecret,
                   keyIdx, histVars, otherVars, logVars, keySeq, allReady>>

ExecutorNext ==
    \/ ExecutorUnsealWithKey
    \/ ExecutorNextKey
    \/ ExecutorReturn

ExecutorSpec == ExecutorInit /\ [][ExecutorNext]_vars

(***************************************************************************)
(* The local-file fallback on its own: Client.UnsealWithKeysFromDir of     *)
(* src/unnamed/part_005 (and unsealVault of src/auto-unseal-controller.go, *)
(* the same code), called with a directory whose files key1, key2, key3    *)
(* are each readable or not, against a server in any state.                *)
(***************************************************************************)
\* What a key file may hold: a share of some pod.
DirContents == {Share(q, i) : q \in Pods, i \in 1..3}

\* The directories: each file is unreadable or holds a key string.
KeyDirs == [DirFileNames -> {Unreadable} \cup {File(c) : c \in DirContents}]

\* Mutant: the files are read from key3 down to key1.
keyPathDescending(i) == KeyName(4 - i)

\* filepath.Join(keysDir, fmt.Sprintf("key%d", i))
keyPath(i) == KeyName(i)

DirInit ==
    /\ faults \in BOOLEAN
    /\ fleet = <<>>
    /\ idx \in Pods
    /\ \E v \in ExecutorTargets :
        /\ vault = [p \in Pods |-> IF p = idx THEN v ELSE FreshVault]
        /\ status = [Initialized |-> v.inited, Sealed |-> v.sealed]
    /\ secrets = [n \in SecretNames |-> NoSecret]
    /\ keysDir \in KeyDirs
    /\ fileReads = <<>>
    /\ keySeq = <<>>
    /\ pc = "dir:read"
    /\ keyIdx = 1
    /\ result = NoResult
    /\ allReady = TRUE
    /\ pods = <<>>
    /\ initialized = FALSE
    /\ initResp = NoInitResp
    /\ unsealSecret = NoSecret
    /\ initCalls = <<>>
    /\ initLog = <<>>
    /\ unsealCalls = [p \in Pods |-> <<>>]
    /\ scanProbe = [p \in Pods |-> NotProbed]
    /\ sealProbe = [p \in Pods |-> NotProbed]
    /\ persisted = FALSE
    /\ prev = 0
    /\ probeIn = TransportError
    /\ probeOut = ProbeErr
    /\ rangeLeft = {}
    /\ storeCalls = <<>>
    /\ discoveries = 0
    /\ handler = NoRequest
    /\ peer = FreshReplica
    /\ environ = NoEnviron
    /\ cfg = LoadConfig(environ)

\* One iteration of `for i := 1; i <= 3; i++`: os.ReadFile(keyPath); an
\* error returns, otherwise keys[i-1] = string(key).
DirReadFile ==
    /\ pc = "dir:read"
    /\ LET name == keyPath(keyIdx)
           file == keysDir[name] IN
        /\ fileReads' = Append(fileReads, name)
        /\ IF ~file.readable
           THEN /\ result' = "err"
                /\ pc' = "dir:returned"
                /\ keySeq' = keySeq
                /\ keyIdx' = keyIdx
           ELSE /\ result' = result
                /\ keySeq' = Append(keySeq, file.content)
                /\ IF keyIdx < 3
                   THEN keyIdx' = keyIdx + 1 /\ pc' = "dir:read"
                   ELSE keyIdx' = 1 /\ pc' = "dir:post"
    /\ UNCHANGED <<replicaVars, keysDir, serverVars, cfgVars, envVars, pods, idx,
                   initialized, initResp, unsealSecret, histVars, otherVars,
                   logVars, allReady>>

\* One iteration of `for i, key := range keys`: the key is posted; a failed
\* post, a status other than 200 or a body that does not parse returns the
\* error, and after the last key nil is returned.
DirPost ==
    /\ pc = "dir:post"
    /\ LET key == keySeq[keyIdx] IN
       \E o \in EnvUnseal(idx, vault[idx], key) :
        LET failed == UnsealFromDirStep(o.resp) IN
        /\ vault' = [vault EXCEPT ![idx] = o.after]
        /\ unsealCalls' = [unsealCalls EXCEPT ![idx] =
               Append(@, [UnsealCall(keyIdx, key, o.resp)
                             EXCEPT !.err = failed])]
        /\ IF failed \/ keyIdx >= Len(keySeq)
           THEN /\ result' = (IF failed THEN "err" ELSE "ok")
                /\ pc' = "dir:returned"
                /\ keyIdx' = keyIdx
           ELSE /\ result' = result
                /\ keyIdx' = keyIdx + 1
                /\ pc' = "dir:post"
    /\ UNCHANGED <<replicaVars, dirVars, serverVars, cfgVars,
                   worldVars, secrets, pods,
                   idx, initialized, initResp, unsealSecret, initCalls,
                   initLog, scanProbe, sealProbe, persisted, prev, otherVars,
                   logVars, keySeq, allReady>>

DirNext ==
    \/ DirReadFile
    \/ DirPost

DirSpec == DirInit /\ [][DirNext]_vars

(***************************************************************************)
(* Discovery on its own: Client.GetVaultPods of src/unnamed/part_004 and   *)
(* getVaultPods of src/auto-unseal-controller.go, applied to a cluster     *)
(* whose pods carry any labels.  Here `fleet` is the list of pod objects   *)
(* of the cluster and `pods` the slice returned.                           *)
(***************************************************************************)
NameLabel == "app.kubernetes.io/name=vault"
ComponentLabel == "component=server"
Namespaces == {"vault", "other"}

\* The IP of the i-th pod object when it has one; "" when it has none.
PodIP(i) == "10.0.0." \o ToString(i)
PodObjects(i) ==
    [namespace : Namespaces,
     labels : SUBSET {NameLabel, ComponentLabel},
     ip : {"", PodIP(i)}]

\* Pods(namespace).List with a label selector: the objects of the namespace
\* that carry every label of the selector, in the order of the cluster.
ListPods(cluster, namespace, selector) ==
    SelectSeq(cluster,
              LAMBDA o : o.namespace = namespace /\ selector \subseteq o.labels)

\* `for _, pod := range pods.Items`: the non-empty pod IPs, in order.
RECURSIVE PodAddresses(_)
PodAddresses(items) ==
    IF items = <<>> THEN <<>>
    ELSE IF Head(items).ip # ""
    THEN <<Head(items).ip>> \o PodAddresses(Tail(items))
    ELSE PodAddresses(Tail(items))

\* Client.GetVaultPods: the selector names two labels.
ClientLabelSelector == {NameLabel, ComponentLabel}
ClientGetVaultPods(cluster, namespace) ==
    PodAddresses(ListPods(cluster, namespace, ClientLabelSelector))

\* getVaultPods of the single-file controller: the selector names one label.
getVaultPods(cluster, namespace) ==
    PodAddresses(ListPods(cluster, namespace, {NameLabel}))

ListInit ==
    /\ faults = TRUE
    /\ fleet \in {c \in [Pods -> UNION {PodObjects(i) : i \in Pods}] :
                     \A i \in Pods : c[i] \in PodObjects(i)}
    /\ vault = [p \in Pods |-> FreshVault]
    /\ secrets = [n \in SecretNames |-> NoSecret]
    /\ pc = "ls:call"
    /\ NoTick
    /\ probeIn = TransportError
    /\ probeOut = ProbeErr
    /\ rangeLeft = {}
    /\ status = NoStatus
    /\ keySeq = <<>>
    /\ result = NoResult
    /\ allReady = TRUE
    /\ storeCalls = <<>>
    /\ discoveries = 0
    /\ handler = NoRequest
    /\ peer = FreshReplica
    /\ keysDir = NoKeysDir
    /\ fileReads = <<>>
    /\ environ = NoEnviron
    /\ cfg = LoadConfig(environ)

\* What a listing returns: the addresses, or the error of the List call.
ListReturn(addresses, to) ==
    /\ \/ pods' = addresses /\ result' = "ok"
       \/ faults /\ pods' = <<>> /\ result' = "err"
    /\ pc' = to
    /\ UNCHANGED <<replicaVars, dirVars, serverVars, cfgVars,
                   envVars, idx, initialized, initResp, unsealSecret, keyIdx,
                   histVars, otherVars, logVars, keySeq, allReady>>

\* pods, err := client.GetVaultPods("vault")
ListByClient ==
    /\ pc = "ls:call"
    /\ ListReturn(ClientGetVaultPods(fleet, "vault"), "ls:client")

\* pods, err := getVaultPods(clientset, "vault")
ListByController ==
    /\ pc = "ls:call"
    /\ ListReturn(getVaultPods(fleet, "vault"), "ls:controller")

ListNext ==
    \/ ListByClient
    \/ ListByController

ListSpec == ListInit /\ [][ListNext]_vars

(***************************************************************************)
(* LoadConfig on its own, under every environment.                         *)
(***************************************************************************)
Environs ==
    {e \in [EnvKeys -> {Unset} \cup {SetTo(t) : t \in
                 IntervalTexts \cup {CustomNamespace, CustomPort}}] :
        /\ e["VAULT_NAMESPACE"] \in {Unset, SetTo(<<>>), SetTo(CustomNamespace)}
        /\ e["VAULT_PORT"] \in {Unset, SetTo(<<>>), SetTo(CustomPort)}
        /\ e["CHECK_INTERVAL"] \in {Unset} \cup {SetTo(t) : t \in IntervalTexts}}

ConfigInit ==
    /\ faults = TRUE
    /\ fleet = <<>>
    /\ vault = [p \in Pods |-> FreshVault]
    /\ secrets = [n \in SecretNames |-> NoSecret]
    /\ pc = "cf:start"
    /\ NoTick
    /\ probeIn = TransportError
    /\ probeOut = ProbeErr
    /\ rangeLeft = {}
    /\ status = NoStatus
    /\ keySeq = <<>>
    /\ result = NoResult
    /\ allReady = TRUE
    /\ storeCalls = <<>>
    /\ discoveries = 0
    /\ handler = NoRequest
    /\ peer = FreshReplica
    /\ keysDir = NoKeysDir
    /\ fileReads = <<>>
    /\ environ \in Environs
    /\ cfg = LoadConfig(NoEnviron)

\* cfg := config.LoadConfig()
ConfigLoad ==
    /\ pc = "cf:start"
    /\ cfg' = LoadConfig(environ)
    /\ pc' = "cf:loaded"
    /\ UNCHANGED <<replicaVars, dirVars,
                   envVars, pods, idx, initialized, initResp, unsealSecret,
                   keyIdx, histVars, otherVars, logVars, execVars, environ,
                   serverVars>>

ConfigNext ==
    \/ ConfigLoad

ConfigSpec == ConfigInit /\ [][ConfigNext]_vars

\* The fleet the loop evaluates under a configuration: the namespace of
\* k8sClient.GetVaultPods(cfg.VaultNamespace) and the port of
\* fmt.Sprintf("http://%s:%s", podIP, cfg.VaultPort).
LoopTarget(c) == [namespace |-> c.VaultNamespace, port |-> c.VaultPort]

\* The fleet handleReady evaluates: s.k8sClient.GetVaultPods("vault") and
\* fmt.Sprintf("http://%s:8200", podIP).
ReadyTarget ==
    [namespace |-> <<"v", "a", "u", "l", "t">>,
     port |-> <<"8", "2", "0", "0">>]

(***************************************************************************)
(* Properties of the reconciliation loop.                                  *)
(***************************************************************************)
PodSet == {pods[i] : i \in DOMAIN pods}
InitTargets == {initCalls[k] : k \in DOMAIN initCalls}
TickDone == pc = "sleep"

\* C1: in every tick, whatever discovery returned and however the probes
\* ended, at most one initialization call is issued.
C1_AtMostOneInitPerTick == Len(initCalls) <= 1

\* A tick over two pods that both probed uninitialized has issued its call.
C1_Witness ==
    /\ TickDone
    /\ Len(pods) = 2
    /\ \A p \in PodSet : IsUninit(scanProbe[p])
    /\ Len(initCalls) = 1

\* C2: in a tick whose election scan probed a pod A as initialized, no
\* initialization call is issued to a pod B that probed uninitialized in that
\* tick, whichever of the two discovery lists first.
C2_NoInitBesideInitialized ==
    \A A \in PodSet, B \in PodSet :
        (/\ IsInit(scanProbe[A])
         /\ (IsUninit(scanProbe[B]) \/ IsUninit(sealProbe[B])))
        => B \notin InitTargets

\* B was listed and probed uninitialized before A probed initialized.
C2_Witness ==
    /\ TickDone
    /\ Len(pods) = 2
    /\ IsUninit(scanProbe[pods[1]])
    /\ IsInit(scanProbe[pods[2]])
    /\ initCalls = <<>>

\* C3 (as claimed): the target of an initialization call is the first pod in
\* discovery order whose probe in this tick succeeded and reported
\* initialized=false.
C3_TargetIsFirstUninitialized ==
    \A k \in DOMAIN initCalls :
        \E i \in DOMAIN pods :
            /\ pods[i] = initCalls[k]
            /\ IsUninit(scanProbe[pods[i]])
            /\ \A j \in 1..(i - 1) : ~IsUninit(scanProbe[pods[j]])

\* C5 (as claimed): over a fixed listing and without failing calls, every
\* listed pod is eventually initialized and unsealed.
FleetSet == {fleet[i] : i \in DOMAIN fleet}
Ready(p) == vault[p].inited /\ ~vault[p].sealed
FieldNames == <<"key1", "key2", "key3", "key4", "key5">>
ExpectedFields(n) == {FieldNames[i] : i \in 1..n}

KeyRecordStored == pc = "storeToken" \/ persisted
KeyRecordAsReturned(data) ==
    /\ DOMAIN data = ExpectedFields(Len(initResp.Keys))
    /\ \A i \in DOMAIN initResp.Keys :
            Str(data[FieldNames[i]]) = initResp.Keys[i]
CredentialRecordAsReturned(data) ==
    /\ DOMAIN data = {"token"}
    /\ Str(data["token"]) = initResp.RootToken

\* C6: once the initialization of this tick has returned n shares and a root
\* token and a record is created from them, the KeyRecord holds exactly the
\* fields key1..keyn with key<i> the i-th share (5 fields for the 5 shares of
\* the fixed policy), the CredentialRecord holds exactly the field token with
\* the root token, and GetSecret reads both back unchanged.
C6_RecordsHoldInitResult ==
    /\ KeyRecordStored =>
           /\ secrets[UnsealKeysSecret].exists
           /\ KeyRecordAsReturned(secrets[UnsealKeysSecret].data)
           /\ (Len(initResp.Keys) = defaultSecretShares =>
                  Cardinality(DOMAIN secrets[UnsealKeysSecret].data) = 5)
           /\ \A o \in GetSecret(secrets, UnsealKeysSecret) :
                  ~o.err => KeyRecordAsReturned(o.secret.data)
    /\ persisted =>
           /\ secrets[RootTokenSecret].exists
           /\ CredentialRecordAsReturned(secrets[RootTokenSecret].data)
           /\ \A o \in GetSecret(secrets, RootTokenSecret) :
                  ~o.err => CredentialRecordAsReturned(o.secret.data)
           /\ (unsealSecret.exists => KeyRecordAsReturned(unsealSecret.data))

\* Five shares and the token were stored and the KeyRecord was read back.
C6_Witness ==
    /\ persisted
    /\ Len(initResp.Keys) = 5
    /\ initResp.RootToken # EmptyString
    /\ unsealSecret.exists
    /\ pc = "unseal"

\* The keys of the unseal calls sent to pod p in this tick, in order.
KeysSent(p) == [i \in 1..Len(unsealCalls[p]) |-> unsealCalls[p][i].key]
NoCallFailed(p) == \A i \in DOMAIN unsealCalls[p] : ~unsealCalls[p][i].err
FirstThreeShares == <<initResp.Keys[1], initResp.Keys[2], initResp.Keys[3]>>

\* The tick initialized a pod, got at least three shares and stored both
\* records.
InitializedAndStored ==
    /\ TickDone
    /\ persisted
    /\ Len(initResp.Keys) >= 3

C9_NoUnsealOfUninitialized ==
    \A p \in Pods : IsUninit(sealProbe[p]) => unsealCalls[p] = <<>>

RecognizedCodes == {200, 429, 472, 473, 501, 503}
Decodes(resp) == ~resp.transport /\ resp.body.ok

\* C8 (as claimed): CheckStatus returns the decoded status without error if
\* and only if the response carries one of the codes 200, 429, 472, 473, 501,
\* 503 and a body that decodes; otherwise it returns an error and no status.
C8_RecognizedCodesAccepted ==
    pc = "probed" =>
        IF Decodes(probeIn) /\ probeIn.code \in RecognizedCodes
        THEN /\ ~probeOut.err
             /\ probeOut.status.Initialized = probeIn.body.initialized
             /\ probeOut.status.Sealed = probeIn.body.sealed
        ELSE probeOut = ProbeErr

\* C10 (as claimed): the unseal calls sent to one pod within one tick carry
\* the shares in strictly ascending positional order.
C10_SharesInAscendingOrder ==
    \A p \in Pods :
        \A i, j \in DOMAIN unsealCalls[p] :
            i < j => unsealCalls[p][i].pos < unsealCalls[p][j].pos

\* The unseal phase of this tick found pod p initialized and sealed.
FoundSealed(p) ==
    /\ sealProbe[p].probed
    /\ ~sealProbe[p].err
    /\ sealProbe[p].status.Initialized
    /\ sealProbe[p].status.Sealed

\* The calls of this tick in which pod p accepted a share.
AppliedCalls(p) == {i \in DOMAIN unsealCalls[p] : unsealCalls[p][i].applied}
AppliedShares(p) == {unsealCalls[p][i].key : i \in AppliedCalls(p)}

\* C12: for a pod found initialized and sealed (threshold 3), a tick in which
\* the pod accepted three shares has sent it three distinct shares of its own
\* and ends with the pod unsealed; a tick in which it accepted fewer than
\* three (a share missing from the KeyRecord, or a failed call) ends with
\* the pod still sealed.
C12_ThresholdBehaviour ==
    TickDone =>
        \A p \in Pods :
            FoundSealed(p) =>
                /\ Cardinality(AppliedCalls(p)) = 3 =>
                       /\ Cardinality(AppliedShares(p)) = 3
                       /\ \A k \in AppliedShares(p) : IsShareOf(p, k)
                       /\ ~vault[p].sealed
                /\ Cardinality(AppliedCalls(p)) < 3 => vault[p].sealed

\* Two shares were accepted, the third call failed, the pod is still sealed.
C12_Witness ==
    /\ TickDone
    /\ \E p \in Pods :
        /\ FoundSealed(p)
        /\ Len(unsealCalls[p]) = 3
        /\ Cardinality(AppliedCalls(p)) = 2
        /\ unsealCalls[p][3].err
        /\ vault[p].sealed

\* The tick found pod p sealed, was about to unseal it, and could not read the
\* KeyRecord.
ReadFailed ==
    /\ TickDone
    /\ initialized \/ persisted
    /\ ~unsealSecret.exists
SeenSealed(p) ==
    \/ FoundSealed(p)
    \/ /\ scanProbe[p].probed /\ ~scanProbe[p].err
       /\ scanProbe[p].status.Initialized /\ scanProbe[p].status.Sealed

\* C13 (as claimed): when a pod is found sealed and the KeyRecord cannot be
\* read, the loop falls back to the local key files and still sends an
\* unseal call to that pod in the same tick.
C13_FallbackOnReadFailure ==
    \A p \in Pods : (ReadFailed /\ SeenSealed(p)) => unsealCalls[p] # <<>>

\* C11 (as claimed): when an unseal call to a pod fails (transport error or
\* non-200), no further unseal call is sent to that pod in that tick.
C11_NoCallAfterFailedCall ==
    \A p \in Pods :
        \A i \in DOMAIN unsealCalls[p] :
            ~unsealCalls[p][i].applied => i = Len(unsealCalls[p])

\* C17 (as claimed): update-record is issued only after a create of the same
\* record failed in this tick because the record already existed.
C17_UpdateOnlyAfterFailedCreate ==
    \A i \in DOMAIN storeCalls :
        storeCalls[i].op = "update" =>
            \E j \in 1..(i - 1) :
                /\ storeCalls[j].op = "create"
                /\ storeCalls[j].name = storeCalls[i].name
                /\ storeCalls[j].err
                /\ storeCalls[j].existed

NoCallsInTick ==
    /\ initCalls = <<>>
    /\ storeCalls = <<>>
    /\ ~unsealSecret.exists
    /\ \A p \in Pods :
        /\ unsealCalls[p] = <<>>
        /\ ~scanProbe[p].probed
        /\ ~sealProbe[p].probed
Sleeping == pc \in {"sleep", "pp:sleep", "uf:sleep", "pi:sleep"}

\* C18 (as claimed): when discovery fails or returns an empty list the tick
\* makes no other call and the loop sleeps: discovery is never run twice
\* without a sleep in between.
C18_SleepAfterFailedDiscovery ==
    /\ discoveries <= 1
    /\ (discoveries >= 1 /\ pods = <<>>) => (Sleeping /\ NoCallsInTick)

\* The second of two pods still probes uninitialized in the tick after the
\* one that initialized the first pod and left it unsealed.
SecondStillUninitialized ==
    /\ TickDone
    /\ Len(pods) = 2
    /\ prev = pods[1]
    /\ (IsUninit(scanProbe[pods[2]]) \/ IsUninit(sealProbe[pods[2]]))

C15_LoopNeverCrashes == pc # "crashed"

\* The CredentialRecord holds the root token of pod p and there is no
\* KeyRecord: the initialization of p was persisted in part.
PartiallyPersisted(p) ==
    /\ secrets[RootTokenSecret].exists
    /\ Str(secrets[RootTokenSecret].data["token"]) = RootToken(p)
    /\ ~secrets[UnsealKeysSecret].exists

InitBranch == {"pi:init", "pi:storeKeys", "pi:storeToken", "pi:unsealNew"}

\* C16: when an initialization that returned its shares is persisted in part
\* (CredentialRecord created, KeyRecord not), the loop does not crash, and a
\* pod that then probes initialized is not initialized again: the loop takes
\* its seal check, never its initialization branch.
C16_PartialPersistenceTolerated ==
    \A p \in Pods : PartiallyPersisted(p) =>
        /\ Len(initResp.Keys) >= UnsealKeyCount => pc # "crashed"
        /\ IsInit(sealProbe[p]) => p \notin InitTargets
        /\ (pc \in InitBranch /\ idx \in DOMAIN pods)
              => IsUninit(sealProbe[pods[idx]])

\* A later tick: the pod whose initialization was persisted in part probes
\* initialized and sealed, no initialization was called, and the loop is in
\* the seal branch, where the KeyRecord could not be read.
C16_Witness ==
    \E p \in Pods :
        /\ PartiallyPersisted(p)
        /\ idx \in DOMAIN pods
        /\ pods[idx] = p
        /\ IsInit(sealProbe[p])
        /\ initCalls = <<>>
        /\ pc = "pi:fallback"

\* C14 (as claimed): /ready answers 200 only if every pod of the listing was
\* probed without error and reported initialized=true and sealed=false.
C14_ReadyOnlyIfAllInitializedAndUnsealed ==
    (pc = "rd:done" /\ result = StatusOK) =>
        \A i \in DOMAIN pods :
            /\ IsInit(sealProbe[pods[i]])
            /\ ~sealProbe[pods[i]].status.Sealed

\* The server the Executor was called against was unsealed on entry.
UnsealedOnEntry == status.Initialized /\ ~status.Sealed

\* C19: called with any key sequence against a server that is already
\* unsealed, the Executor leaves it unsealed, and when the server answers
\* every call it posts every key and returns no error.
C19_IdempotentOnUnsealed ==
    UnsealedOnEntry =>
        /\ ~vault[idx].sealed
        /\ (pc = "ex:returned" /\ ~faults) =>
              /\ result = "ok"
              /\ Len(unsealCalls[idx]) = Len(keySeq)

\* Three keys, one of them no share of the server, were posted to a server
\* unsealed on entry, and the Executor returned no error.
C19_Witness ==
    /\ UnsealedOnEntry
    /\ pc = "ex:returned"
    /\ ~faults
    /\ Len(keySeq) = MaxKeys
    /\ \E i \in DOMAIN keySeq : ~IsShareOf(idx, keySeq[i])
    /\ Len(unsealCalls[idx]) = MaxKeys
    /\ result = "ok"
    /\ ~vault[idx].sealed

\* The server answered the call 200 with a body that reports `sealed`.
AnsweredSealed(c, sealed) == c.applied /\ c.decoded /\ c.sealed = sealed

\* C20: a call answered 200 with sealed=true is no error and the Executor
\* goes on to the next key; three calls answered sealed=true, sealed=true,
\* sealed=false return no error after exactly three calls.
C20_SealedAnswerIsNoError ==
    LET calls == unsealCalls[idx] IN
    /\ \A i \in DOMAIN calls : AnsweredSealed(calls[i], TRUE) =>
          /\ ~calls[i].err
          /\ (pc = "ex:returned" /\ i < Len(keySeq)) => Len(calls) > i
    /\ ( /\ pc = "ex:returned"
         /\ Len(keySeq) = 3
         /\ Len(calls) >= 3
         /\ AnsweredSealed(calls[1], TRUE)
         /\ AnsweredSealed(calls[2], TRUE)
         /\ AnsweredSealed(calls[3], FALSE) )
       => (result = "ok" /\ Len(calls) = 3)

\* Three shares were answered sealed=true, sealed=true, sealed=false and
\* the Executor returned no error.
C20_Witness ==
    LET calls == unsealCalls[idx] IN
    /\ pc = "ex:returned"
    /\ Len(calls) = 3
    /\ AnsweredSealed(calls[1], TRUE)
    /\ AnsweredSealed(calls[2], TRUE)
    /\ AnsweredSealed(calls[3], FALSE)
    /\ result = "ok"

\* C21 (as claimed): UnsealWithKey returns no error exactly when the unseal
\* endpoint answered 200, whatever the body of the answer, an empty one
\* included.
C21_NoErrorIffStatusOK ==
    \A p \in Pods : \A i \in DOMAIN unsealCalls[p] :
        ~unsealCalls[p][i].err <=> unsealCalls[p][i].applied

\* The answer to an init call is a 200 with a body that decodes.
AnsweredInit(resp) == ~resp.transport /\ resp.code = 200 /\ resp.body.ok

\* C22: every init request of a tick carries secret_shares = 5 and
\* secret_threshold = 3, and Initialize returns the shares and the root token
\* of the answer when the answer is a 200 that decodes, and an error for
\* every other answer.
C22_FixedPolicyAndInitResult ==
    /\ \A k \in DOMAIN initLog :
          /\ initLog[k].req.secret_shares = 5
          /\ initLog[k].req.secret_threshold = 3
          /\ initLog[k].req.secret_threshold <= initLog[k].req.secret_shares
    /\ initLog # <<>> =>
          LET resp == initLog[Len(initLog)].resp IN
          IF AnsweredInit(resp)
          THEN /\ ~initResp.err
               /\ initResp.Keys = resp.body.keys
               /\ initResp.RootToken = resp.body.root_token
          ELSE initResp.err

\* The init call of this tick was answered with five shares and a root
\* token, which Initialize returned.
C22_Witness ==
    /\ Len(initLog) = 1
    /\ AnsweredInit(initLog[1].resp)
    /\ Len(initResp.Keys) = 5
    /\ initResp.RootToken = RootToken(initCalls[1])
    /\ TickDone

\* What a request to the health endpoint must leave alone: the servers, the
\* registry and the store, the listing and the probes of the last readiness
\* query, and every call log.
HealthFrame ==
    <<envVars, pods, idx, histVars, logVars, allReady>>

\* C23: GET /health answers 200 whatever the state of the servers, of the
\* registry and of the store, and makes no discovery, probe or store call.
C23_HealthAnswersOKWithoutCalls ==
    [][(pc \in Served /\ pc' = "rd:health:GET")
          => (result' = 200 /\ UNCHANGED HealthFrame)]_vars

\* GET /health was answered 200 while a server is sealed, the store holds a
\* record and the last readiness query was answered 503.
C23_Witness ==
    /\ pc = "rd:health:GET"
    /\ result = 200
    /\ \E p \in Pods : vault[p].sealed
    /\ secrets[UnsealKeysSecret].exists
    /\ ~allReady

\* The IPs of the pods of the namespace "vault" that carry the label
\* app.kubernetes.io/name=vault and have a pod IP.
LabelledVaultIPs ==
    {fleet[i].ip : i \in {j \in DOMAIN fleet :
                              /\ fleet[j].namespace = "vault"
                              /\ NameLabel \in fleet[j].labels
                              /\ fleet[j].ip # ""}}

\* C24 (as claimed): a listing that returns no error returns exactly the
\* IPs of the pods of the namespace that carry the label
\* app.kubernetes.io/name=vault and have a non-empty IP, each once.
C24_ExactlyLabelledPodsWithIP ==
    (pc \in {"ls:client", "ls:controller"} /\ result = "ok") =>
        /\ {pods[i] : i \in DOMAIN pods} = LabelledVaultIPs
        /\ Len(pods) = Cardinality(LabelledVaultIPs)

\* The variable is set to a non-empty value.
SetNonEmpty(key) == environ[key].set /\ environ[key].text # <<>>

\* The check interval, in seconds, that the environment asks for.
IntervalSeconds ==
    IF SetNonEmpty("CHECK_INTERVAL") /\ ~Atoi(environ["CHECK_INTERVAL"].text).err
    THEN Atoi(environ["CHECK_INTERVAL"].text).value
    ELSE 10

\* C25 (as claimed): LoadConfig returns for the namespace, the port and the
\* check interval the value of the environment variable when it is set and
\* not empty, and otherwise "vault", "8200" and 10 seconds; a CHECK_INTERVAL
\* that is no integer gives 10 seconds.
C25_ValueOrDefault ==
    pc = "cf:loaded" =>
        /\ cfg.VaultNamespace =
              (IF SetNonEmpty("VAULT_NAMESPACE")
               THEN environ["VAULT_NAMESPACE"].text ELSE DefaultNamespace)
        /\ cfg.VaultPort =
              (IF SetNonEmpty("VAULT_PORT")
               THEN environ["VAULT_PORT"].text ELSE DefaultPort)
        /\ cfg.CheckInterval = IntervalSeconds * Second

\* The last init call of this tick failed: a transport error, a code other
\* than 200, or a body that does not decode.
InitFailed == initLog # <<>> /\ ~AnsweredInit(initLog[Len(initLog)].resp)

\* The tick is over: the loop sleeps, or has slept and is about to run the
\* discovery of the next tick.
TickEnded ==
    Sleeping \/ pc \in {"discover", "pp:discover", "uf:discover", "pi:discover"}

\* C26: when the init call of a tick fails, the tick ends there: it makes no
\* call to the secret store, which stays as it was, and no unseal call.
C26_FailedInitMutatesNothing ==
    InitFailed =>
        /\ storeCalls = <<>>
        /\ ~unsealSecret.exists
        /\ \A p \in Pods : unsealCalls[p] = <<>>
        /\ TickEnded

\* An init call was answered 200 with a body that does not decode, and the
\* tick has ended without a store call or an unseal call.
C26_Witness ==
    /\ InitFailed
    /\ ~initLog[1].resp.transport
    /\ initLog[1].resp.code = 200
    /\ TickDone
    /\ storeCalls = <<>>
    /\ \A p \in Pods : unsealCalls[p] = <<>>

\* The unseal phase of this tick was entered and the tick is done.
UnsealPhaseDone == TickDone /\ unsealSecret.exists

\* C27: when the probe of a pod fails in the unseal phase, every pod later
\* in the listing is still probed in that tick, and one that is then found
\* sealed is still sent the first key of the KeyRecord.
C27_ProbeFailureSkipsOnlyThatPod ==
    UnsealPhaseDone =>
        \A j, i \in DOMAIN pods :
            (j < i /\ sealProbe[pods[j]].probed /\ sealProbe[pods[j]].err) =>
                /\ sealProbe[pods[i]].probed
                /\ (/\ ~sealProbe[pods[i]].err
                    /\ sealProbe[pods[i]].status.Sealed
                    /\ KeyName(1) \in DOMAIN unsealSecret.data)
                   => unsealCalls[pods[i]] # <<>>

\* The probe of the first pod failed and the second pod, found sealed, was
\* unsealed with three calls in the same tick.
C27_Witness ==
    /\ UnsealPhaseDone
    /\ Len(pods) = 2
    /\ sealProbe[pods[1]].err
    /\ unsealCalls[pods[1]] = <<>>
    /\ FoundSealed(pods[2])
    /\ Len(unsealCalls[pods[2]]) = 3
    /\ ~vault[pods[2]].sealed

\* The probe reported initialized=true and sealed=false.
Healthy(pr) == IsInit(pr) /\ ~pr.status.Sealed

\* C28: a pod that a probe of this tick reported initialized and unsealed is
\* sent no init call and no unseal call in this tick, and whatever the tick
\* writes to the secret store follows an init call to another pod.
C28_HealthyPodIsLeftAlone ==
    \A p \in Pods :
        (Healthy(sealProbe[p]) \/ Healthy(scanProbe[p])) =>
            /\ p \notin InitTargets
            /\ unsealCalls[p] = <<>>
            /\ storeCalls # <<>> => initCalls # <<>>

\* The tick is done: one pod was found healthy in the unseal phase and left
\* alone, while another pod, found sealed, was sent keys.
C28_Witness ==
    /\ TickDone
    /\ \E p, q \in Pods :
        /\ Healthy(sealProbe[p])
        /\ unsealCalls[p] = <<>>
        /\ FoundSealed(q)
        /\ unsealCalls[q] # <<>>

\* C29: in every tick the calls to a pod start again at share 1 and follow
\* the KeyRecord in order, whatever shares the pod kept from a tick in which
\* its unsealing failed part-way: the i-th call of the tick sends key i.
C29_EveryTickStartsAtShareOne ==
    \A p \in Pods : \A i \in DOMAIN unsealCalls[p] :
        /\ unsealCalls[p][i].pos = i
        /\ KeyName(i) \in DOMAIN unsealSecret.data
        /\ unsealCalls[p][i].key = Str(unsealSecret.data[KeyName(i)])

\* The pod holds two shares from an earlier tick that failed at the third
\* call; this tick found it sealed and has sent it key 1 again.
C29_Witness ==
    \E p \in Pods :
        /\ FoundSealed(p)
        /\ Len(unsealCalls[p]) = 1
        /\ unsealCalls[p][1].pos = 1
        /\ unsealCalls[p][1].applied
        /\ Cardinality(vault[p].progress) = 2
        /\ vault[p].sealed

(***************************************************************************)
(* Properties of the readiness handler running beside the loop.            *)
(***************************************************************************)
\* What a step of the loop may change and a readiness query may not: the
\* servers, the secret store, the loop's variables and the logs of the init
\* calls, of the unseal calls and of the secret-store calls.
LoopFrame ==
    <<vault, secrets, mainVars, initCalls, initLog, unsealCalls, storeCalls,
      persisted>>

\* The answer that follows from what one query obtained: 405 to anything
\* but GET, 503 when the listing failed or a probe failed or found the
\* server sealed, 200 otherwise.
AnswerOf(h) ==
    IF h.method # "GET" THEN StatusMethodNotAllowed
    ELSE IF h.listErr THEN StatusServiceUnavailable
    ELSE IF \E i \in DOMAIN h.probes : h.probes[i].err \/ h.probes[i].sealed
    THEN StatusServiceUnavailable
    ELSE StatusOK

\* The query probed the pods that the registry listed to it, in order.
ProbedOwnListing(h) ==
    /\ Len(h.probes) = Len(h.listing)
    /\ \A i \in DOMAIN h.probes : h.probes[i].pod = h.listing[i]

\* C30: in any interleaving of readiness queries with the loop, a step of a
\* query leaves the servers, the secret store, the loop's variables and the
\* logs of init, unseal and secret-store calls unchanged, a step of the loop
\* leaves the query's locals unchanged, and an answered query probed the
\* pods listed to it and answered what its own listing and probes imply.
C30_ReadyQueryIsIndependentOfLoop ==
    /\ [][(handler' # handler) => UNCHANGED LoopFrame]_vars
    /\ [][(LoopFrame' # LoopFrame) => UNCHANGED handler]_vars
    /\ [](handler.pc = "done" =>
            /\ handler.code = AnswerOf(handler)
            /\ handler.listErr \/ handler.method # "GET"
                  \/ ProbedOwnListing(handler))

\* A query is in flight between its probes and its answer: it found its
\* first pod sealed, and the loop has since unsealed that pod and is still
\* inside its tick.
C30_Witness ==
    /\ handler.pc = "answer"
    /\ Len(handler.probes) = 2
    /\ ~handler.probes[1].err
    /\ handler.probes[1].sealed
    /\ ~vault[handler.listing[1]].sealed
    /\ pc = "apply"

(***************************************************************************)
(* Properties of the secret store.                                         *)
(***************************************************************************)
\* C31: a step of a tick that has made no init call (seal checks, the read
\* of the KeyRecord and unseal calls only) leaves every record of the secret
\* store as it was and issues no create or update.
C31_UnsealPathOnlyReadsStore ==
    /\ [][(initLog' = <<>>) => (secrets' = secrets)]_vars
    /\ [](initLog = <<>> => storeCalls = <<>>)

\* A tick without an init call has read the KeyRecord, sent its three keys
\* to a sealed pod and ended.
C31_Witness ==
    /\ TickDone
    /\ initLog = <<>>
    /\ unsealSecret.exists
    /\ \E p \in Pods : Len(unsealCalls[p]) = UnsealKeyCount

(***************************************************************************)
(* Properties of the local-file fallback.                                  *)
(***************************************************************************)
\* The names key1, key2, key3 in this order.
ThreeKeyFiles == [i \in 1..3 |-> KeyName(i)]

\* Some file of the directory cannot be read.
SomeFileUnreadable == \E n \in DirFileNames : ~keysDir[n].readable

\* C32: UnsealWithKeysFromDir with a directory has read exactly key1, key2,
\* key3 before it sends anything, sends their contents in the order 1, 2, 3,
\* and, when one of the three files cannot be read, returns an error having
\* read no file after the unreadable one and having issued no unseal call.
C32_ThreeFilesReadThenAppliedInOrder ==
    /\ \A k \in DOMAIN fileReads : fileReads[k] = ThreeKeyFiles[k]
    /\ \A p \in Pods : \A k \in DOMAIN unsealCalls[p] :
        /\ fileReads = ThreeKeyFiles
        /\ unsealCalls[p][k].pos = k
        /\ unsealCalls[p][k].key = keysDir[KeyName(k)].content
    /\ Len(fileReads) <= 3
    /\ (pc = "dir:returned" /\ SomeFileUnreadable) =>
        /\ result = "err"
        /\ \A p \in Pods : unsealCalls[p] = <<>>
        /\ ~keysDir[fileReads[Len(fileReads)]].readable
        /\ \A k \in 1..(Len(fileReads) - 1) : keysDir[fileReads[k]].readable

\* The three files were read and their three keys were sent and accepted.
C32_Witness ==
    /\ pc = "dir:returned"
    /\ result = "ok"
    /\ fileReads = ThreeKeyFiles
    /\ Len(unsealCalls[idx]) = 3
    /\ ~vault[idx].sealed

\* key1 was read, key2 could not be read: an error and no call.
C32_WitnessUnreadable ==
    /\ pc = "dir:returned"
    /\ keysDir[KeyName(1)].readable
    /\ ~keysDir[KeyName(2)].readable
    /\ fileReads = <<KeyName(1), KeyName(2)>>
    /\ result = "err"

(***************************************************************************)
(* Properties of the records of an initialization.                         *)
(***************************************************************************)
\* The init call of this tick was answered 200 with a result that decodes.
InitSucceeded == initLog # <<>> /\ AnsweredInit(initLog[Len(initLog)].resp)

\* C33: when the tick whose init call succeeded has ended, the KeyRecord
\* exists and holds the shares that call returned.
C33_SharesStoredByEndOfTick ==
    (TickEnded /\ InitSucceeded) =>
        /\ secrets[UnsealKeysSecret].exists
        /\ KeyRecordAsReturned(secrets[UnsealKeysSecret].data)

\* C34: in the loop of main.go each creation of the CredentialRecord directly
\* follows a successful creation of the KeyRecord in the same tick, and a
\* CredentialRecord in the store implies a KeyRecord in the store.
C34_CredentialRecordImpliesKeyRecord ==
    /\ \A k \in DOMAIN storeCalls :
        storeCalls[k].name = RootTokenSecret =>
            /\ k > 1
            /\ storeCalls[k - 1].name = UnsealKeysSecret
            /\ storeCalls[k - 1].op = "create"
            /\ ~storeCalls[k - 1].err
    /\ secrets[RootTokenSecret].exists => secrets[UnsealKeysSecret].exists

\* Both records were created in this tick, the KeyRecord first.
C34_Witness ==
    /\ Len(storeCalls) = 2
    /\ storeCalls[2].name = RootTokenSecret
    /\ ~storeCalls[2].err
    /\ secrets[RootTokenSecret].exists
    /\ secrets[UnsealKeysSecret].exists

(***************************************************************************)
(* Properties of two replicas.                                             *)
(***************************************************************************)
\* The step is a successful creation of the KeyRecord by the running
\* replica.
KeyRecordCreated ==
    /\ peer' = peer
    /\ Len(storeCalls') = Len(storeCalls) + 1
    /\ storeCalls'[Len(storeCalls')].name = UnsealKeysSecret
    /\ storeCalls'[Len(storeCalls')].op = "create"
    /\ ~storeCalls'[Len(storeCalls')].err

\* C35: with two replicas, a creation of the KeyRecord succeeds only while
\* the KeyRecord does not exist, and once it exists no step changes or
\* removes it, so at most one creation succeeds.
C35_KeyRecordCreatedOnceAndKept ==
    /\ [][KeyRecordCreated => ~secrets[UnsealKeysSecret].exists]_vars
    /\ [][secrets[UnsealKeysSecret].exists =>
            secrets'[UnsealKeysSecret] = secrets[UnsealKeysSecret]]_vars

\* Both replicas have initialized a pod in their tick, one has created the
\* KeyRecord and the creation of the other has failed.
C35_Witness ==
    /\ peer.storeCalls # <<>>
    /\ ~peer.storeCalls[1].err
    /\ storeCalls # <<>>
    /\ storeCalls[1].name = UnsealKeysSecret
    /\ storeCalls[1].err
    /\ storeCalls[1].existed

(***************************************************************************)
(* Properties of the readiness handler and the configuration.              *)
(***************************************************************************)
\* C36: under every configuration the namespace the readiness handler hands
\* to discovery and the port it probes are those the loop uses.
C36_ReadyEvaluatesTheLoopsFleet ==
    pc = "cf:loaded" => ReadyTarget = LoopTarget(cfg)

\* The query was a GET whose discovery succeeded with no pod.
ListedNone(h) == h.method = "GET" /\ ~h.listErr /\ h.listing = <<>>

\* C37: a GET /ready whose discovery succeeds with zero instances probes
\* nothing and answers 200, while the loop, given an empty discovery result,
\* ends its tick at once: it sleeps having made no probe, no init call, no
\* unseal call and no store call, as after a failed discovery.
C37_EmptyFleetIsReadyButNoTick ==
    /\ [](handler.pc = "done" /\ ListedNone(handler) =>
            handler.code = StatusOK /\ handler.probes = <<>>)
    /\ [][(pc = "discover" /\ pods' = <<>> /\ handler' = handler) =>
            pc' = "sleep"]_vars
    /\ []((pc = "sleep" /\ pods = <<>>) =>
            /\ initLog = <<>>
            /\ storeCalls = <<>>
            /\ ~unsealSecret.exists
            /\ \A p \in Pods :
                /\ unsealCalls[p] = <<>>
                /\ ~scanProbe[p].probed
                /\ ~sealProbe[p].probed)

\* The registry listed no pod to a query, which answered 200, and to the
\* loop, which sleeps.
C37_Witness ==
    /\ handler.pc = "done"
    /\ ListedNone(handler)
    /\ handler.code = StatusOK
    /\ pc = "sleep"
    /\ pods = <<>>
    /\ discoveries = 1

====
